---- MODULE Spec2Model ----
(***************************************************************************)
(* Theme backend: code resolution (CodeService), brand configuration       *)
(* (BrandService over brands.json), font stylesheet generation             *)
(* (FontService), the identity facade (resolve_to_brand_id) and the admin  *)
(* write path (save_brands and the handlers that call it).                 *)
(*                                                                         *)
(* Python values are encoded as follows.  A dict is a function whose       *)
(* domain is its key set.  An Optional value is a sequence of length 0     *)
(* (None, or a missing key returned by dict.get) or 1.  A JSON null stored *)
(* under a key that normally holds a dict is the record Null.  A returned  *)
(* value is Return(v), a raised exception is Raise(class name).            *)
(***************************************************************************)
EXTENDS Naturals, Sequences, FiniteSets, TLC

VARIABLES
    ENABLE_CACHE,   \* settings.ENABLE_CACHE, fixed when the process starts
    brands_json,    \* the document stored in brands.json: brand key -> config
    brands_cache,   \* BrandService._brands_cache: <<>> (None) or <<document>>
    codes_cache,    \* CodeService._codes_cache: code -> customer name
    css_cache,      \* FontService._css_cache: lower-cased brand id -> css
    calls,          \* per request slot: the request being served, or the last one served
    resolved,       \* history: code -> name of its latest successful lookup since clear_cache
    failed          \* history: codes whose latest completed lookup ended in an error

vars == <<ENABLE_CACHE, brands_json, brands_cache, codes_cache, css_cache,
          calls, resolved, failed>>

-----------------------------------------------------------------------------
(* Sample inputs *)

\* strings a caller passes as code or brand id
Inputs == {"acme", "Acme"}

\* customerName values the verification service answers with
Names == {"Acme", "beta"}

\* request slots; requests served one at a time use slot 1
Slots == {1, 2}

\* str.lower() on the strings of the model
Lower(s) ==
    CASE s = "Acme" -> "acme"
      [] s = "Beta" -> "beta"
      [] OTHER -> s

Return(v) == [kind |-> "return", val |-> v]
Raise(e) == [kind |-> "raise", val |-> e]
NoResult == [kind |-> "none", val |-> ""]

-----------------------------------------------------------------------------
(* The verification service, as seen by httpx *)

\* a response of GET {verification_api_url}/{code}: an HTTP response with a
\* status, a body that is JSON or not, and the body's customerName (<<>> when
\* the key is missing); or no response at all within the timeout
HttpResponse(status, json, name) ==
    [kind |-> "http", status |-> status, json |-> json, customerName |-> name]

Timeout == [kind |-> "timeout", status |-> 0, json |-> FALSE, customerName |-> <<>>]

Responses ==
    {HttpResponse(200, TRUE, <<n>>) : n \in Names \cup {""}}
    \cup {HttpResponse(200, TRUE, <<>>), HttpResponse(200, FALSE, <<>>),
          HttpResponse(404, TRUE, <<>>), HttpResponse(500, TRUE, <<>>), Timeout}

IsSuccess(resp) == resp.kind = "http" /\ resp.status \in 200..299

\* a success response carrying a non-empty tenant name
HasName(resp) ==
    /\ IsSuccess(resp)
    /\ resp.json
    /\ resp.customerName # <<>>
    /\ resp.customerName[1] # ""

-----------------------------------------------------------------------------
(* Brand configuration documents *)

\* JSON null under a key that normally holds a dict
Null == [null |-> TRUE]

Variant(file, weight, style) == [file |-> file, weight |-> weight, style |-> style]

Family(name, variants) == [name |-> name, variants |-> variants]

\* a font file name "{name}-{weight_name}{style_suffix}.{ext}", kept in parts
FontFile(name, weight_name, style_suffix, ext) ==
    [name |-> name, weight_name |-> weight_name,
     style_suffix |-> style_suffix, ext |-> ext]

\* the colors create_brand gives a new brand; of its 23 roles, all literals
\* handled alike, the first two and the last are kept
MinimalColors ==
    [primary |-> "#000000", secondary |-> "#333333", skeleton |-> "#E0E0E0"]

\* the config create_brand writes when it copies nothing
MinimalConfig(customer_name) ==
    [customerName |-> customer_name,
     colors |-> MinimalColors,
     fonts |-> [primary |-> Family("Arial", <<>>), fallback |-> "Arial, sans-serif"],
     logos |-> [header |-> "logo.svg", favicon |-> "favicon.ico"],
     placeholders |-> [car |-> <<>>, moto |-> <<>>, odometer |-> <<>>,
                       documentation |-> <<>>]]

\* the brand the store holds when the process starts
AcmeConfig ==
    [customerName |-> "Acme",
     colors |-> MinimalColors,
     fonts |-> [primary |-> Family("Inter",
                    <<Variant(FontFile("Inter", <<"Regular">>, "", "ttf"), 400, "normal")>>),
                fallback |-> "Arial, sans-serif"],
     logos |-> [header |-> "logo.svg", favicon |-> "favicon.ico"],
     placeholders |-> [car |-> [front |-> "car/front.svg"],
                       moto |-> [front |-> "moto/front.svg"],
                       odometer |-> [mileage |-> "odometer/mileage.svg"],
                       documentation |-> [dniFront |-> "documentation/dni-front.svg"]]]

InitialBrands == "acme" :> AcmeConfig

-----------------------------------------------------------------------------
(* BrandService *)

\* BrandsCacheHit with the cache used whatever ENABLE_CACHE says
BrandsCacheHitAlways == brands_cache # <<>>

\* the cache test that opens _load_brands
BrandsCacheHit == brands_cache # <<>> /\ ENABLE_CACHE

\* _load_brands: the document it returns
LoadBrands ==
    IF BrandsCacheHit THEN brands_cache[1] ELSE brands_json

\* _brands_cache after _load_brands
BrandsCacheAfterLoad == <<LoadBrands>>

\* brand_exists
BrandExistsIn(brands, brand_id) == Lower(brand_id) \in DOMAIN brands

\* BrandConfigIn looking the id up as given
BrandConfigInExact(brands, brand_id) ==
    IF brand_id \notin DOMAIN brands
    THEN Raise("BrandNotFoundError")
    ELSE Return(brands[brand_id])

\* get_brand_config
BrandConfigIn(brands, brand_id) ==
    IF Lower(brand_id) \notin DOMAIN brands
    THEN Raise("BrandNotFoundError")
    ELSE Return(brands[Lower(brand_id)])

\* get_brand_ids (the keys, as a set)
BrandIdsIn(brands) == DOMAIN brands

\* settings.STATIC_BASE_URL, its default
STATIC_BASE_URL == "http://localhost:8000/static"

\* BuildStaticUrl without the "brands" segment
BuildStaticUrlNoBrands(brand_id, path_parts) == <<STATIC_BASE_URL, brand_id>> \o path_parts

\* _build_static_url: the URL "{base}/brands/{brand_id}/{path}", kept as its segments
BuildStaticUrl(brand_id, path_parts) == <<STATIC_BASE_URL, "brands", brand_id>> \o path_parts

\* build_font_urls: name and variants of a family, each file made a URL; a
\* missing key raises KeyError, a null family TypeError
BuildFontUrls(brand_id, font_family) ==
    IF font_family = Null THEN Raise("TypeError")
    ELSE IF ~({"name", "variants"} \subseteq DOMAIN font_family) THEN Raise("KeyError")
    ELSE IF \E i \in DOMAIN font_family.variants :
                ~({"file", "weight", "style"} \subseteq DOMAIN font_family.variants[i])
         THEN Raise("KeyError")
    ELSE Return([name |-> font_family.name,
                 variants |-> [i \in DOMAIN font_family.variants |->
                    [src |-> BuildStaticUrl(brand_id, <<"fonts", font_family.variants[i].file>>),
                     weight |-> font_family.variants[i].weight,
                     style |-> font_family.variants[i].style]]])

\* build_logo_urls: every logo file made a URL under images/
BuildLogoUrls(brand_id, logos_config) ==
    [key \in DOMAIN logos_config |->
        BuildStaticUrl(brand_id, <<"images", logos_config[key]>>)]

\* build_placeholder_urls: every path of every category made a URL under
\* images/placeholders/
BuildPlaceholderUrls(brand_id, placeholders_config) ==
    [category \in DOMAIN placeholders_config |->
        [key \in DOMAIN placeholders_config[category] |->
            BuildStaticUrl(brand_id, <<"images", "placeholders",
                                       placeholders_config[category][key]>>)]]

\* get_fonts_css_url: STATIC_BASE_URL without "/static", then the API path
GetFontsCssUrl(brand_id) ==
    <<"http://localhost:8000", "api", "fonts", brand_id, "fonts.css">>

-----------------------------------------------------------------------------
(* FontService *)

\* GetFontFormat taking an unknown extension for an OpenType file
GetFontFormatDefaultOpentype(src_url) ==
    LET extension == Lower(src_url[Len(src_url)].ext)
    IN  CASE extension = "woff2" -> "woff2"
          [] extension = "woff" -> "woff"
          [] extension = "ttf" -> "truetype"
          [] extension = "otf" -> "opentype"
          [] extension = "eot" -> "embedded-opentype"
          [] OTHER -> "opentype"

\* _get_font_format: the text after the last dot of the URL, lower-cased,
\* looked up in formats; the URLs of the model have their only dot in the
\* file name
GetFontFormat(src_url) ==
    LET extension == Lower(src_url[Len(src_url)].ext)
    IN  CASE extension = "woff2" -> "woff2"
          [] extension = "woff" -> "woff"
          [] extension = "ttf" -> "truetype"
          [] extension = "otf" -> "opentype"
          [] extension = "eot" -> "embedded-opentype"
          [] OTHER -> "truetype"

\* _generate_font_face: one @font-face rule
GenerateFontFace(family_name, src_url, weight, style) ==
    [block |-> "@font-face", family |-> family_name, src |-> src_url,
     format |-> GetFontFormat(src_url), weight |-> weight, style |-> style]

Comment(text) == [block |-> "comment", text |-> text]

\* FontFaces with a rule for the first variant only
FontFacesFirstOnly(family_name, with_urls) ==
    [i \in DOMAIN with_urls.variants \cap {1} |->
        GenerateFontFace(family_name, with_urls.variants[i].src,
                         with_urls.variants[i].weight, with_urls.variants[i].style)]

\* the @font-face rules of one family, in the order of its variants
FontFaces(family_name, with_urls) ==
    [i \in DOMAIN with_urls.variants |->
        GenerateFontFace(family_name, with_urls.variants[i].src,
                         with_urls.variants[i].weight, with_urls.variants[i].style)]

\* a truthy JSON value under a family key: neither null nor an empty dict
Truthy(v) == v # Null /\ DOMAIN v # {}

\* generate_fonts_css past the cache test: the text made of brand_config, as
\* the sequence of blocks joined into it, or the exception raised on the way
GenerateCss(brand_id, brand_config) ==
    LET fonts_config == IF "fonts" \in DOMAIN brand_config THEN brand_config.fonts ELSE <<>>
        has_primary == "primary" \in DOMAIN fonts_config
        has_secondary == "secondary" \in DOMAIN fonts_config /\ Truthy(fonts_config.secondary)
        primary_with_urls == BuildFontUrls(brand_id, fonts_config.primary)
        secondary_with_urls == BuildFontUrls(brand_id, fonts_config.secondary)
        fallback == IF "fallback" \in DOMAIN fonts_config THEN fonts_config.fallback
                    ELSE "Arial, sans-serif"
        primary_name == IF has_primary /\ "name" \in DOMAIN fonts_config.primary
                        THEN fonts_config.primary.name ELSE "Arial"
        secondary_name == IF "secondary" \in DOMAIN fonts_config
                             /\ "name" \in DOMAIN fonts_config.secondary
                          THEN fonts_config.secondary.name ELSE primary_name
    IN  IF "customerName" \notin DOMAIN brand_config THEN Raise("KeyError")
        ELSE IF fonts_config = Null THEN Raise("TypeError")
        ELSE IF has_primary /\ primary_with_urls.kind = "raise" THEN primary_with_urls
        ELSE IF has_secondary /\ secondary_with_urls.kind = "raise" THEN secondary_with_urls
        ELSE IF "secondary" \in DOMAIN fonts_config /\ fonts_config.secondary = Null
             THEN Raise("AttributeError")
        ELSE Return(
            <<Comment(<<"Fonts for", brand_config.customerName>>),
              Comment(<<"Generated dynamically - DO NOT EDIT">>)>>
            \o (IF has_primary
                THEN <<Comment(<<"Primary Font:", fonts_config.primary.name>>)>>
                     \o FontFaces(fonts_config.primary.name, primary_with_urls.val)
                ELSE <<>>)
            \o (IF has_secondary
                THEN <<Comment(<<"Secondary Font:", fonts_config.secondary.name>>)>>
                     \o FontFaces(fonts_config.secondary.name, secondary_with_urls.val)
                ELSE <<>>)
            \o <<[block |-> ":root", primary |-> <<primary_name, fallback>>,
                  secondary |-> <<secondary_name, fallback>>, fallback |-> fallback]>>)

\* the cache test that opens generate_fonts_css
CssCacheHit(brand_id) == ENABLE_CACHE /\ Lower(brand_id) \in DOMAIN css_cache

\* generate_fonts_css: what it returns or raises
GenerateFontsCssResult(brand_id) ==
    IF CssCacheHit(brand_id) THEN Return(css_cache[Lower(brand_id)])
    ELSE LET config == BrandConfigIn(LoadBrands, brand_id)
         IN  IF config.kind = "raise" THEN config
             ELSE GenerateCss(brand_id, config.val)

\* CssCacheAfter storing the text without its last block
CssCacheAfterTruncated(brand_id) ==
    LET result == GenerateFontsCssResult(brand_id)
    IN  IF ~CssCacheHit(brand_id) /\ result.kind = "return" /\ ENABLE_CACHE
        THEN (Lower(brand_id) :> SubSeq(result.val, 1, Len(result.val) - 1)) @@ css_cache
        ELSE css_cache

\* _css_cache after generate_fonts_css
CssCacheAfter(brand_id) ==
    LET result == GenerateFontsCssResult(brand_id)
    IN  IF ~CssCacheHit(brand_id) /\ result.kind = "return" /\ ENABLE_CACHE
        THEN (Lower(brand_id) :> result.val) @@ css_cache
        ELSE css_cache

\* CssCacheAfterClear deleting the key as given
CssCacheAfterClearExact(brand_id) ==
    IF brand_id # <<>> /\ brand_id[1] # ""
    THEN [k \in DOMAIN css_cache \ {brand_id[1]} |-> css_cache[k]]
    ELSE <<>>

\* _css_cache after FontService.clear_cache(brand_id), brand_id being <<>>
\* for None: a truthy brand_id deletes its lower-cased key if present, None
\* or "" clears the cache
CssCacheAfterClear(brand_id) ==
    IF brand_id # <<>> /\ brand_id[1] # ""
    THEN [k \in DOMAIN css_cache \ {Lower(brand_id[1])} |-> css_cache[k]]
    ELSE <<>>

-----------------------------------------------------------------------------
(* Admin write path *)

\* BrandsCacheAfterSave leaving the cache as it is
BrandsCacheAfterSaveKept(cache) == cache

\* _brands_cache after save_brands wrote the file
BrandsCacheAfterSave(cache) == <<>>

\* a dict with key k set to v
Put(dict, k, v) == (k :> v) @@ dict

\* a dict without key k
Drop(dict, k) == [x \in DOMAIN dict \ {k} |-> dict[x]]

\* the order of Python strings on the styles of the model
StyleRank(style) ==
    CASE style = "italic" -> 1
      [] style = "normal" -> 2
      [] style = "oblique" -> 3
      [] OTHER -> 0

\* KeyLess comparing the weights alone
KeyLessByWeight(a, b) == a.weight < b.weight

\* (a.weight, a.style) < (b.weight, b.style)
KeyLess(a, b) ==
    \/ a.weight < b.weight
    \/ a.weight = b.weight /\ StyleRank(a.style) < StyleRank(b.style)

RECURSIVE InsertByKey(_, _)
InsertByKey(sorted, v) ==
    IF sorted = <<>> THEN <<v>>
    ELSE IF KeyLess(v, Head(sorted)) THEN <<v>> \o sorted
    ELSE <<Head(sorted)>> \o InsertByKey(Tail(sorted), v)

\* sorted(variants, key=lambda x: (x["weight"], x["style"])), a stable sort
RECURSIVE SortVariants(_)
SortVariants(variants) ==
    IF variants = <<>> THEN <<>>
    ELSE InsertByKey(SortVariants(SubSeq(variants, 1, Len(variants) - 1)),
                     variants[Len(variants)])

\* weight_names.get(weight, f"W{weight}")
WeightName(weight) ==
    CASE weight = 100 -> <<"Thin">>
      [] weight = 200 -> <<"ExtraLight">>
      [] weight = 300 -> <<"Light">>
      [] weight = 400 -> <<"Regular">>
      [] weight = 500 -> <<"Medium">>
      [] weight = 600 -> <<"SemiBold">>
      [] weight = 700 -> <<"Bold">>
      [] weight = 800 -> <<"ExtraBold">>
      [] weight = 900 -> <<"Black">>
      [] OTHER -> <<"W", weight>>

\* font_name.replace(' ', '')
WithoutSpaces(font_name) ==
    CASE font_name = "Open Sans" -> "OpenSans"
      [] OTHER -> font_name

\* upload_font: the name of the file it stores, always a .woff2
FinalFilename(font_name, weight, style) ==
    FontFile(WithoutSpaces(font_name), WeightName(weight),
             IF style = "italic" THEN "-Italic" ELSE "", "woff2")

\* the position of the first variant with this weight and style, or 0
ExistingVariant(variants, weight, style) ==
    IF \E i \in DOMAIN variants : variants[i].weight = weight /\ variants[i].style = style
    THEN CHOOSE i \in DOMAIN variants :
            /\ variants[i].weight = weight /\ variants[i].style = style
            /\ \A j \in 1..(i - 1) :
                ~(variants[j].weight = weight /\ variants[j].style = style)
    ELSE 0

\* UpsertVariant appending the variant whether or not one exists
UpsertVariantAppend(font_config, font_type, font_name, weight, style) ==
    LET family == IF font_type \notin DOMAIN font_config \/ font_config[font_type] = Null
                  THEN Family(font_name, <<>>)
                  ELSE font_config[font_type]
        updated == Append(family.variants,
                          Variant(FinalFilename(font_name, weight, style), weight, style))
    IN  Put(font_config, font_type, Family(font_name, SortVariants(updated)))

\* upload_font, the update of brands[brand_id]["fonts"]: the family is
\* created when missing or null, renamed, the variant replaced or appended,
\* the variants sorted
UpsertVariant(font_config, font_type, font_name, weight, style) ==
    LET family == IF font_type \notin DOMAIN font_config \/ font_config[font_type] = Null
                  THEN Family(font_name, <<>>)
                  ELSE font_config[font_type]
        variants == family.variants
        existing == ExistingVariant(variants, weight, style)
        final_filename == FinalFilename(font_name, weight, style)
        updated == IF existing # 0
                   THEN [variants EXCEPT ![existing].file = final_filename]
                   ELSE Append(variants, Variant(final_filename, weight, style))
    IN  Put(font_config, font_type, Family(font_name, SortVariants(updated)))

\* WithoutVariant removing every variant of the weight
WithoutVariantByWeight(variants, weight, style) ==
    SelectSeq(variants, LAMBDA v : v.weight # weight)

\* delete_font_variant, the variants it keeps
WithoutVariant(variants, weight, style) ==
    SelectSeq(variants, LAMBDA v : ~(v.weight = weight /\ v.style = style))

-----------------------------------------------------------------------------
(* CodeService *)

\* the cache test that opens get_brand_id_by_code, on a given cache
CacheHitIn(cache, code) == ENABLE_CACHE /\ code \in DOMAIN cache

CacheHit(code) == CacheHitIn(codes_cache, code)

\* the body of the try block, from the response on: the value it returns or
\* the exception it raises
TryBody(resp) ==
    IF resp.kind = "timeout" THEN Raise("httpx.RequestError")
    ELSE IF resp.status = 404 THEN Raise("CodeNotFoundError")
    ELSE IF ~IsSuccess(resp) THEN Raise("httpx.HTTPStatusError")
    ELSE IF ~resp.json THEN Raise("Exception")
    ELSE IF resp.customerName = <<>> \/ resp.customerName[1] = ""
         THEN Raise("CodeServiceError")
    ELSE Return(resp.customerName[1])

\* ExceptClauses with a transport failure reported as a missing code
ExceptClausesTransportAsNotFound(exc, resp) ==
    IF exc = "httpx.HTTPStatusError"
    THEN IF resp.status = 404 THEN Raise("CodeNotFoundError")
         ELSE Raise("CodeServiceError")
    ELSE IF exc = "httpx.RequestError" THEN Raise("CodeNotFoundError")
    ELSE Raise("CodeServiceError")

\* the except clauses, in order: what leaves get_brand_id_by_code when the
\* try block raised exc (CodeNotFoundError and CodeServiceError are plain
\* Exception subclasses, so the last clause catches them too)
ExceptClauses(exc, resp) ==
    IF exc = "httpx.HTTPStatusError"
    THEN IF resp.status = 404 THEN Raise("CodeNotFoundError")
         ELSE Raise("CodeServiceError")
    ELSE IF exc = "httpx.RequestError" THEN Raise("CodeServiceError")
    ELSE Raise("CodeServiceError")

\* get_brand_id_by_code from the response on: its outcome
LookupOutcome(resp) ==
    LET r == TryBody(resp)
    IN  IF r.kind = "return" THEN r ELSE ExceptClauses(r.val, resp)

\* CodesCacheAfter storing the customerName before it is validated
CodesCacheAfterUnvalidated(code, resp) ==
    IF IsSuccess(resp) /\ resp.json /\ ENABLE_CACHE
    THEN (code :> IF resp.customerName = <<>> THEN "" ELSE resp.customerName[1])
         @@ codes_cache
    ELSE codes_cache

\* CodesCacheAfter storing nothing
CodesCacheAfterNoStore(code, resp) == codes_cache

\* CodesCacheAfter remembering a failed lookup as an empty name
CodesCacheAfterNegative(code, resp) ==
    LET r == TryBody(resp)
    IN  IF ~ENABLE_CACHE THEN codes_cache
        ELSE IF r.kind = "return" THEN (code :> r.val) @@ codes_cache
        ELSE (code :> "") @@ codes_cache

\* CodesCacheAfter dropping the entry of a code whose lookup failed
CodesCacheAfterEvict(code, resp) ==
    LET r == TryBody(resp)
    IN  IF r.kind = "return" /\ ENABLE_CACHE
        THEN (code :> r.val) @@ codes_cache
        ELSE [c \in DOMAIN codes_cache \ {code} |-> codes_cache[c]]

\* _codes_cache after get_brand_id_by_code(code) received resp
CodesCacheAfter(code, resp) ==
    LET r == TryBody(resp)
    IN  IF r.kind = "return" /\ ENABLE_CACHE
        THEN (code :> r.val) @@ codes_cache
        ELSE codes_cache

\* CodeExistsResult without the except clause for CodeServiceError
CodeExistsResultNoServiceClause(outcome) ==
    IF outcome.kind = "return" THEN Return(TRUE)
    ELSE IF outcome.val = "CodeNotFoundError" THEN Return(FALSE)
    ELSE outcome

\* code_exists: the boolean it makes of the lookup's outcome
CodeExistsResult(outcome) ==
    IF outcome.kind = "return" THEN Return(TRUE)
    ELSE IF outcome.val = "CodeNotFoundError" THEN Return(FALSE)
    ELSE IF outcome.val = "CodeServiceError" THEN Return(FALSE)
    ELSE outcome

-----------------------------------------------------------------------------
(* Requests *)

\* a request slot: op and arg name the operation called, pc its position,
\* resps the verification responses it received so far, lookup the outcome
\* of its latest get_brand_id_by_code, res what it returned or raised;
\* params holds an upload's form fields and brands the document its handler
\* loaded; prior and prevFailed record the history of arg as a code when the
\* request started; dropped says that save_brands emptied a filled
\* _brands_cache (on a write), or that the request before did (on a read);
\* id is what resolve_to_brand_id gave an endpoint that called it; before
\* maps the brand ids generate_fonts_css was called with, since the last
\* admin request, to what it answered, and after a BrandService read holds
\* the read served just before; overlaps says that an upload was
\* suspended in its file read while another one was
Call(op, arg) ==
    [op |-> op, arg |-> arg, pc |-> "done", resps |-> <<>>,
     lookup |-> NoResult, res |-> NoResult,
     hit |-> <<>>,
     prior |-> IF arg \in DOMAIN resolved THEN <<resolved[arg]>> ELSE <<>>,
     prevFailed |-> arg \in failed,
     params |-> <<>>, brands |-> <<>>, dropped |-> FALSE, id |-> NoResult,
     before |-> <<>>, overlaps |-> FALSE]

Idle == [op |-> "none", arg |-> "", pc |-> "idle", resps |-> <<>>,
         lookup |-> NoResult, res |-> NoResult, hit |-> <<>>, prior |-> <<>>,
         prevFailed |-> FALSE, params |-> <<>>, brands |-> <<>>, dropped |-> FALSE,
         id |-> NoResult, before |-> <<>>, overlaps |-> FALSE]

\* no request is being served
Quiet == \A s \in Slots : calls[s].pc \in {"idle", "done"}

\* the history of lookups, after a lookup of code ended in outcome
ResolvedAfter(code, outcome) ==
    IF outcome.kind = "return" THEN (code :> outcome.val) @@ resolved ELSE resolved

FailedAfter(code, outcome) ==
    IF outcome.kind = "return" THEN failed \ {code} ELSE failed \cup {code}

\* get_brand_id_by_code(code) is called: a cache hit returns at once, a miss
\* sends the request and suspends
GetBrandIdByCode(s, code) ==
    /\ IF CacheHit(code)
       THEN LET out == Return(codes_cache[code])
            IN  /\ calls' = [calls EXCEPT ![s] =
                        [Call("get_brand_id_by_code", code) EXCEPT
                            !.lookup = out, !.res = out]]
                /\ resolved' = ResolvedAfter(code, out)
                /\ failed' = FailedAfter(code, out)
       ELSE /\ calls' = [calls EXCEPT ![s] =
                        [Call("get_brand_id_by_code", code) EXCEPT !.pc = "awaiting"]]
            /\ UNCHANGED <<resolved, failed>>
    /\ UNCHANGED <<ENABLE_CACHE, brands_json, brands_cache, codes_cache, css_cache>>

\* the response (or the timeout) arrives
GetBrandIdByCodeResponse(s, resp) ==
    /\ calls[s].op = "get_brand_id_by_code"
    /\ calls[s].pc = "awaiting"
    /\ LET code == calls[s].arg
           out == LookupOutcome(resp)
       IN  /\ codes_cache' = CodesCacheAfter(code, resp)
           /\ calls' = [calls EXCEPT ![s] =
                   [@ EXCEPT !.pc = "done", !.resps = Append(@, resp),
                             !.lookup = out, !.res = out]]
           /\ resolved' = ResolvedAfter(code, out)
           /\ failed' = FailedAfter(code, out)
    /\ UNCHANGED <<ENABLE_CACHE, brands_json, brands_cache, css_cache>>

\* code_exists(code) is called
CodeExists(s, code) ==
    /\ IF CacheHit(code)
       THEN LET out == Return(codes_cache[code])
            IN  /\ calls' = [calls EXCEPT ![s] =
                        [Call("code_exists", code) EXCEPT
                            !.lookup = out, !.res = CodeExistsResult(out)]]
                /\ resolved' = ResolvedAfter(code, out)
                /\ failed' = FailedAfter(code, out)
       ELSE /\ calls' = [calls EXCEPT ![s] =
                        [Call("code_exists", code) EXCEPT !.pc = "awaiting"]]
            /\ UNCHANGED <<resolved, failed>>
    /\ UNCHANGED <<ENABLE_CACHE, brands_json, brands_cache, codes_cache, css_cache>>

CodeExistsResponse(s, resp) ==
    /\ calls[s].op = "code_exists"
    /\ calls[s].pc = "awaiting"
    /\ LET code == calls[s].arg
           out == LookupOutcome(resp)
       IN  /\ codes_cache' = CodesCacheAfter(code, resp)
           /\ calls' = [calls EXCEPT ![s] =
                   [@ EXCEPT !.pc = "done", !.resps = Append(@, resp),
                             !.lookup = out, !.res = CodeExistsResult(out)]]
           /\ resolved' = ResolvedAfter(code, out)
           /\ failed' = FailedAfter(code, out)
    /\ UNCHANGED <<ENABLE_CACHE, brands_json, brands_cache, css_cache>>

\* CodeService.clear_cache()
ClearCodesCache ==
    /\ codes_cache' = <<>>
    /\ resolved' = <<>>
    /\ UNCHANGED <<ENABLE_CACHE, brands_json, brands_cache, css_cache, calls, failed>>

\* the admin handlers that write the store
WriteOps == {"create_brand", "delete_brand", "update_brand", "upload_font",
             "delete_font_variant", "upload_logo", "upload_favicon",
             "upload_placeholder"}

\* the get_brand_config or brand_exists call that slot s holds: the read
\* served before the next one, with no request in between
ReadBefore(s) ==
    IF calls[s].op \in {"get_brand_config", "brand_exists"}
    THEN <<[op |-> calls[s].op, arg |-> calls[s].arg, res |-> calls[s].res]>>
    ELSE <<>>

\* a synchronous read that ran to its end with result res
ServedRead(s, op, arg, res) ==
    calls' = [calls EXCEPT ![s] =
        [Call(op, arg) EXCEPT !.res = res,
                              !.dropped = calls[s].op \in WriteOps /\ calls[s].dropped,
                              !.before = ReadBefore(s)]]

\* a BrandService read that ran to its end with result res; hit holds the
\* cached document when _load_brands returned it without opening the file
ServedLoad(s, op, arg, res) ==
    calls' = [calls EXCEPT ![s] =
        [Call(op, arg) EXCEPT !.res = res,
                              !.dropped = calls[s].op \in WriteOps /\ calls[s].dropped,
                              !.before = ReadBefore(s),
                              !.hit = IF BrandsCacheHit THEN <<brands_cache[1]>> ELSE <<>>]]

\* an admin request: its path parameter, its other inputs, and the document
\* its load_brands() returned
Request(op, arg, params, brands) ==
    [Call(op, arg) EXCEPT !.params = params, !.brands = <<brands>>]

\* the slot serves no request at the moment
Free(s) == calls[s].pc \in {"idle", "done"}

\* Rejected emptying the BrandService cache
RejectedDropsCache(s, call, res) ==
    /\ calls' = [calls EXCEPT ![s] = [call EXCEPT !.pc = "done", !.res = res]]
    /\ brands_cache' = <<>>
    /\ UNCHANGED brands_json

\* an admin handler ends in an error response before it wrote anything
Rejected(s, call, res) ==
    /\ calls' = [calls EXCEPT ![s] = [call EXCEPT !.pc = "done", !.res = res]]
    /\ UNCHANGED <<brands_json, brands_cache>>

\* the handler suspends in await file.read(), as others may have
Suspended(s, call) ==
    /\ calls' = [t \in Slots |->
            IF t = s
            THEN [call EXCEPT !.pc = "reading",
                              !.overlaps = \E u \in Slots \ {s} : calls[u].pc = "reading"]
            ELSE IF calls[t].pc = "reading" THEN [calls[t] EXCEPT !.overlaps = TRUE]
            ELSE calls[t]]
    /\ UNCHANGED <<brands_json, brands_cache>>

\* save_brands(data), and the success response of the handler that called it
SaveBrands(s, call, data) ==
    /\ brands_json' = data
    /\ brands_cache' = BrandsCacheAfterSave(brands_cache)
    /\ calls' = [calls EXCEPT ![s] =
            [call EXCEPT !.pc = "done", !.res = Return("success"),
                         !.dropped = brands_cache # <<>>]]

\* create_brand: 400 for an existing key, 404 for an unknown copy_from, else
\* the new config is stored under brand_id as given
CreateBrand(s, brand_id, customer_name, copy_from) ==
    LET brands == brands_json
        call == Request("create_brand", brand_id,
                        [customer_name |-> customer_name, copy_from |-> copy_from],
                        brands)
    IN  /\ IF brand_id \in DOMAIN brands
           THEN Rejected(s, call, Raise("HTTP 400"))
           ELSE IF copy_from # <<>> /\ copy_from[1] \notin DOMAIN brands
           THEN Rejected(s, call, Raise("HTTP 404"))
           ELSE LET new_config ==
                        IF copy_from # <<>>
                        THEN Put(brands[copy_from[1]], "customerName", customer_name)
                        ELSE MinimalConfig(customer_name)
                IN  SaveBrands(s, call, Put(brands, brand_id, new_config))
        /\ UNCHANGED <<ENABLE_CACHE, codes_cache, css_cache, resolved, failed>>

\* delete_brand
DeleteBrand(s, brand_id) ==
    LET brands == brands_json
        call == Request("delete_brand", brand_id, <<>>, brands)
    IN  /\ IF brand_id \notin DOMAIN brands
           THEN Rejected(s, call, Raise("HTTP 404"))
           ELSE SaveBrands(s, call, Drop(brands, brand_id))
        /\ UNCHANGED <<ENABLE_CACHE, codes_cache, css_cache, resolved, failed>>

\* update_brand
UpdateBrand(s, brand_id, config) ==
    LET brands == brands_json
        call == Request("update_brand", brand_id, [config |-> config], brands)
    IN  /\ IF brand_id \notin DOMAIN brands
           THEN Rejected(s, call, Raise("HTTP 404"))
           ELSE SaveBrands(s, call, Put(brands, brand_id, config))
        /\ UNCHANGED <<ENABLE_CACHE, codes_cache, css_cache, resolved, failed>>

\* upload_logo and upload_favicon up to their file read: slot is "header" and
\* allowed [".svg", ".png"] for the logo, "favicon" and [".ico", ".png"] for
\* the favicon
UploadImage(s, op, slot, allowed, brand_id, ext) ==
    LET brands == brands_json
        call == Request(op, brand_id, [slot |-> slot, ext |-> ext], brands)
    IN  /\ IF brand_id \notin DOMAIN brands
           THEN Rejected(s, call, Raise("HTTP 404"))
           ELSE IF ext \notin allowed
           THEN Rejected(s, call, Raise("HTTP 400"))
           ELSE Suspended(s, call)
        /\ UNCHANGED <<ENABLE_CACHE, codes_cache, css_cache, resolved, failed>>

UploadLogo(s, brand_id, ext) ==
    UploadImage(s, "upload_logo", "header", {".svg", ".png"}, brand_id, ext)

UploadFavicon(s, brand_id, ext) ==
    UploadImage(s, "upload_favicon", "favicon", {".ico", ".png"}, brand_id, ext)

\* the name upload_logo and upload_favicon store: "logo{ext}", "favicon{ext}",
\* for the extensions they allow
ImageFilename(slot, ext) ==
    CASE slot = "header" /\ ext = ".svg" -> "logo.svg"
      [] slot = "header" /\ ext = ".png" -> "logo.png"
      [] slot = "favicon" /\ ext = ".ico" -> "favicon.ico"
      [] slot = "favicon" /\ ext = ".png" -> "favicon.png"

\* upload_logo and upload_favicon from their file read on: the file name is
\* set in the loaded document, which is saved
UploadImageSave(s) ==
    /\ calls[s].op \in {"upload_logo", "upload_favicon"}
    /\ calls[s].pc = "reading"
    /\ LET brand_id == calls[s].arg
           f == calls[s].params
           brands == calls[s].brands[1]
       IN  IF "logos" \notin DOMAIN brands[brand_id]
           THEN Rejected(s, calls[s], Raise("KeyError"))
           ELSE SaveBrands(s, calls[s],
                    Put(brands, brand_id,
                        Put(brands[brand_id], "logos",
                            Put(brands[brand_id].logos, f.slot,
                                ImageFilename(f.slot, f.ext)))))
    /\ UNCHANGED <<ENABLE_CACHE, codes_cache, css_cache, resolved, failed>>

\* upload_placeholder up to its file read
UploadPlaceholder(s, brand_id, category, name, ext) ==
    LET brands == brands_json
        call == Request("upload_placeholder", brand_id,
                        [category |-> category, name |-> name, ext |-> ext], brands)
    IN  /\ IF brand_id \notin DOMAIN brands
           THEN Rejected(s, call, Raise("HTTP 404"))
           ELSE IF category \notin {"car", "moto", "odometer", "documentation"}
           THEN Rejected(s, call, Raise("HTTP 400"))
           ELSE IF ext \notin {".png", ".jpg", ".jpeg", ".webp", ".avif"}
           THEN Rejected(s, call, Raise("HTTP 400"))
           ELSE Suspended(s, call)
        /\ UNCHANGED <<ENABLE_CACHE, codes_cache, css_cache, resolved, failed>>

\* relative_path = "{category}/{category}-illustration-{name}{ext}", for
\* the uploads sampled
PlaceholderPath(category, name, ext) ==
    CASE category = "car" /\ name = "front" /\ ext = ".png" ->
            "car/car-illustration-front.png"
      [] category = "moto" /\ name = "front" /\ ext = ".png" ->
            "moto/moto-illustration-front.png"

\* upload_placeholder from its file read on: the path is set under the
\* category, which is created when missing, and the document saved
UploadPlaceholderSave(s) ==
    /\ calls[s].op = "upload_placeholder"
    /\ calls[s].pc = "reading"
    /\ LET brand_id == calls[s].arg
           f == calls[s].params
           brands == calls[s].brands[1]
           placeholders == brands[brand_id].placeholders
           items == IF f.category \in DOMAIN placeholders
                    THEN placeholders[f.category] ELSE <<>>
       IN  IF "placeholders" \notin DOMAIN brands[brand_id]
           THEN Rejected(s, calls[s], Raise("KeyError"))
           ELSE SaveBrands(s, calls[s],
                    Put(brands, brand_id,
                        Put(brands[brand_id], "placeholders",
                            Put(placeholders, f.category,
                                Put(items, f.name,
                                    PlaceholderPath(f.category, f.name, f.ext))))))
    /\ UNCHANGED <<ENABLE_CACHE, codes_cache, css_cache, resolved, failed>>

\* upload_font up to its file read: the document is loaded and the request
\* validated, then the handler suspends in file.read()
UploadFont(s, brand_id, ext, font_type, font_name, weight, style) ==
    LET brands == brands_json
        call == Request("upload_font", brand_id,
                        [ext |-> ext, font_type |-> font_type,
                         font_name |-> font_name, weight |-> weight,
                         style |-> style],
                        brands)
    IN  /\ IF brand_id \notin DOMAIN brands
           THEN Rejected(s, call, Raise("HTTP 404"))
           ELSE IF ext \notin {".otf", ".ttf", ".woff2"}
           THEN Rejected(s, call, Raise("HTTP 400"))
           ELSE IF font_type \notin {"primary", "secondary"}
           THEN Rejected(s, call, Raise("HTTP 400"))
           ELSE Suspended(s, call)
        /\ UNCHANGED <<ENABLE_CACHE, codes_cache, css_cache, resolved, failed>>

\* upload_font from its file read on: an .otf or .ttf is converted, which
\* may fail with a 500; then the loaded document is updated and saved
UploadFontSave(s, converts) ==
    /\ calls[s].op = "upload_font"
    /\ calls[s].pc = "reading"
    /\ LET brand_id == calls[s].arg
           f == calls[s].params
           brands == calls[s].brands[1]
       IN  IF f.ext \in {".otf", ".ttf"} /\ ~converts
           THEN Rejected(s, calls[s], Raise("HTTP 500"))
           ELSE IF "fonts" \notin DOMAIN brands[brand_id]
           THEN Rejected(s, calls[s], Raise("KeyError"))
           ELSE SaveBrands(s, calls[s],
                    Put(brands, brand_id,
                        Put(brands[brand_id], "fonts",
                            UpsertVariant(brands[brand_id].fonts, f.font_type,
                                          f.font_name, f.weight, f.style))))
    /\ UNCHANGED <<ENABLE_CACHE, codes_cache, css_cache, resolved, failed>>

\* delete_font_variant
DeleteFontVariant(s, brand_id, font_type, weight, style) ==
    LET brands == brands_json
        call == Request("delete_font_variant", brand_id,
                        [font_type |-> font_type, weight |-> weight, style |-> style],
                        brands)
    IN  /\ IF brand_id \notin DOMAIN brands
           THEN Rejected(s, call, Raise("HTTP 404"))
           ELSE IF "fonts" \notin DOMAIN brands[brand_id]
           THEN Rejected(s, call, Raise("KeyError"))
           ELSE LET font_config == brands[brand_id].fonts
                IN  IF font_type \notin DOMAIN font_config \/ font_config[font_type] = Null
                    THEN Rejected(s, call, Raise("HTTP 404"))
                    ELSE LET kept == WithoutVariant(font_config[font_type].variants,
                                                    weight, style)
                         IN  IF Len(kept) = Len(font_config[font_type].variants)
                             THEN Rejected(s, call, Raise("HTTP 404"))
                             ELSE SaveBrands(s, call,
                                    Put(brands, brand_id,
                                        Put(brands[brand_id], "fonts",
                                            Put(font_config, font_type,
                                                Put(font_config[font_type],
                                                    "variants", kept)))))
        /\ UNCHANGED <<ENABLE_CACHE, codes_cache, css_cache, resolved, failed>>

-----------------------------------------------------------------------------
(* BrandService and FontService requests *)

\* get_brand_config
GetBrandConfig(s, brand_id) ==
    /\ ServedLoad(s, "get_brand_config", brand_id, BrandConfigIn(LoadBrands, brand_id))
    /\ brands_cache' = BrandsCacheAfterLoad
    /\ UNCHANGED <<ENABLE_CACHE, brands_json, codes_cache, css_cache, resolved, failed>>

\* brand_exists
BrandExists(s, brand_id) ==
    /\ ServedLoad(s, "brand_exists", brand_id, Return(BrandExistsIn(LoadBrands, brand_id)))
    /\ brands_cache' = BrandsCacheAfterLoad
    /\ UNCHANGED <<ENABLE_CACHE, brands_json, codes_cache, css_cache, resolved, failed>>

\* get_brand_ids
GetBrandIds(s) ==
    /\ ServedLoad(s, "get_brand_ids", "", Return(BrandIdsIn(LoadBrands)))
    /\ brands_cache' = BrandsCacheAfterLoad
    /\ UNCHANGED <<ENABLE_CACHE, brands_json, codes_cache, css_cache, resolved, failed>>

\* build_logo_urls, build_placeholder_urls and build_font_urls called with
\* the parts of a config
BuildUrls(s, brand_id, config) ==
    /\ calls' = [calls EXCEPT ![s] =
            [Call("build_urls", brand_id) EXCEPT
                !.params = [config |-> config],
                !.res = Return([logos |-> BuildLogoUrls(brand_id, config.logos),
                                placeholders |->
                                    BuildPlaceholderUrls(brand_id, config.placeholders),
                                fonts |-> BuildFontUrls(brand_id, config.fonts.primary)]),
                !.dropped = calls[s].op \in WriteOps /\ calls[s].dropped]]
    /\ UNCHANGED <<ENABLE_CACHE, brands_json, brands_cache, codes_cache, css_cache,
                   resolved, failed>>

\* admin/routes.py: BRANDS_JSON_PATH, the file load_brands and save_brands
\* open, as the segments below the source root
BRANDS_JSON_PATH == <<"app", "config", "brands.json">>

\* settings.BRANDS_CONFIG_PATH: the environment variable when it is set,
\* else brands.json beside settings.py
BrandsConfigPath(env) == IF env # <<>> THEN env[1] ELSE <<"app", "config", "brands.json">>

\* the document in the file at path: the admin layer's file holds what
\* save_brands wrote last; a file elsewhere holds what it was deployed with,
\* since nothing writes it
FileAt(path) == IF path = BRANDS_JSON_PATH THEN brands_json ELSE InitialBrands

\* _load_brands of a BrandService whose settings were read with the
\* environment variable BRANDS_CONFIG_PATH as env (unset: <<>>), on a miss
LoadConfigured(s, env) ==
    /\ calls' = [calls EXCEPT ![s] =
            [Call("_load_brands", "") EXCEPT
                !.params = [BRANDS_CONFIG_PATH |-> env],
                !.res = Return(FileAt(BrandsConfigPath(env)))]]
    /\ UNCHANGED <<ENABLE_CACHE, brands_json, brands_cache, codes_cache, css_cache,
                   resolved, failed>>

\* the answers of the generate_fonts_css calls that slot s served without an
\* admin request in between, the one it holds included
TextsBefore(s) ==
    IF calls[s].op = "generate_fonts_css"
    THEN (calls[s].arg :> calls[s].res) @@ calls[s].before
    ELSE <<>>

\* generate_fonts_css
GenerateFontsCss(s, brand_id) ==
    /\ calls' = [calls EXCEPT ![s] =
            [Call("generate_fonts_css", brand_id) EXCEPT
                !.res = GenerateFontsCssResult(brand_id),
                !.dropped = calls[s].op \in WriteOps /\ calls[s].dropped,
                !.hit = IF CssCacheHit(brand_id)
                        THEN <<css_cache[Lower(brand_id)]>> ELSE <<>>,
                !.before = TextsBefore(s)]]
    /\ css_cache' = CssCacheAfter(brand_id)
    /\ brands_cache' = IF CssCacheHit(brand_id) THEN brands_cache ELSE BrandsCacheAfterLoad
    /\ UNCHANGED <<ENABLE_CACHE, brands_json, codes_cache, resolved, failed>>

\* FontService.clear_cache(brand_id); the request keeps the cache it found
ClearCssCache(s, brand_id) ==
    /\ calls' = [calls EXCEPT ![s] =
            [Call("clear_cache", "") EXCEPT
                !.params = [brand_id |-> brand_id],
                !.res = Return("None"),
                !.before = css_cache]]
    /\ css_cache' = CssCacheAfterClear(brand_id)
    /\ UNCHANGED <<ENABLE_CACHE, brands_json, brands_cache, codes_cache, resolved, failed>>

-----------------------------------------------------------------------------
(* Theme API: what each endpoint makes of the result of resolve_to_brand_id *)

\* raise HTTPException(status_code=404, detail=...): the input the detail
\* names and, in available, the brand ids it lists (<<>> when it lists none)
NotFoundResponse(url_code, available) ==
    [kind |-> "http_exception",
     val |-> [status_code |-> 404, names |-> url_code, available |-> available]]

\* the fields the response models require: of Colors the roles MinimalColors
\* keeps, of Logos both, of each placeholder model its first field
RequiredColors == DOMAIN MinimalColors

RequiredLogos == {"header", "favicon"}

PlaceholderCategories == <<"car", "moto", "odometer", "documentation">>

RequiredPlaceholders ==
    [car |-> {"front"}, moto |-> {"front"}, odometer |-> {"mileage"},
     documentation |-> {"dniFront"}]

\* a pydantic model built from dict d: the declared fields, extras dropped
Fields(required, d) == [k \in required |-> d[k]]

\* get_theme from "Construir URLs para logos" on
GetThemeBody(brand_id, config) ==
    LET has(k) == k \in DOMAIN config
        fonts_config == config.fonts
        logos_urls == BuildLogoUrls(brand_id, config.logos)
        placeholders_urls == BuildPlaceholderUrls(brand_id, config.placeholders)
        primary_font == BuildFontUrls(brand_id, fonts_config.primary)
        has_secondary == "secondary" \in DOMAIN fonts_config
                            /\ Truthy(fonts_config.secondary)
        secondary_font == BuildFontUrls(brand_id, fonts_config.secondary)
        Bad(category) ==
            \/ category \notin DOMAIN placeholders_urls
            \/ ~(RequiredPlaceholders[category] \subseteq DOMAIN placeholders_urls[category])
        first_bad == CHOOSE i \in DOMAIN PlaceholderCategories :
                        /\ Bad(PlaceholderCategories[i])
                        /\ \A j \in 1..(i - 1) : ~Bad(PlaceholderCategories[j])
    IN  IF ~has("logos") \/ ~has("placeholders") \/ ~has("fonts") THEN Raise("KeyError")
        ELSE IF fonts_config = Null THEN Raise("TypeError")
        ELSE IF "primary" \notin DOMAIN fonts_config THEN Raise("KeyError")
        ELSE IF primary_font.kind = "raise" THEN primary_font
        ELSE IF has_secondary /\ secondary_font.kind = "raise" THEN secondary_font
        ELSE IF ~has("customerName") \/ ~has("colors") THEN Raise("KeyError")
        ELSE IF ~(RequiredColors \subseteq DOMAIN config.colors) THEN Raise("ValidationError")
        ELSE IF ~(RequiredLogos \subseteq DOMAIN logos_urls) THEN Raise("ValidationError")
        ELSE IF \E i \in DOMAIN PlaceholderCategories : Bad(PlaceholderCategories[i])
             THEN IF PlaceholderCategories[first_bad] \notin DOMAIN placeholders_urls
                  THEN Raise("KeyError") ELSE Raise("ValidationError")
        ELSE Return(
            [success |-> TRUE,
             data |-> [customerName |-> config.customerName,
                       colors |-> Fields(RequiredColors, config.colors),
                       fonts |-> [primary |-> primary_font.val,
                                  secondary |-> IF has_secondary
                                                THEN <<secondary_font.val>> ELSE <<>>,
                                  fallback |-> IF "fallback" \in DOMAIN fonts_config
                                               THEN fonts_config.fallback
                                               ELSE "Arial, sans-serif",
                                  cssUrl |-> GetFontsCssUrl(brand_id)],
                       logos |-> Fields(RequiredLogos, logos_urls),
                       placeholders |->
                            [c \in DOMAIN RequiredPlaceholders |->
                                Fields(RequiredPlaceholders[c], placeholders_urls[c])]]])

\* get_theme, given the outcome r of its resolve_to_brand_id
GetThemeResult(url_code, r) ==
    LET config == BrandConfigIn(LoadBrands, r.val)
    IN  IF r.kind = "raise"
        THEN IF r.val = "BrandNotFoundError"
             THEN NotFoundResponse(url_code, <<BrandIdsIn(LoadBrands)>>)
             ELSE r
        ELSE IF config.kind = "raise"
             THEN NotFoundResponse(url_code, <<BrandIdsIn(LoadBrands)>>)
        ELSE GetThemeBody(r.val, config.val)

\* get_theme_colors, given the outcome r of its resolve_to_brand_id
GetThemeColorsResult(url_code, r) ==
    LET config == BrandConfigIn(LoadBrands, r.val)
    IN  IF r.kind = "raise"
        THEN IF r.val = "BrandNotFoundError"
             THEN NotFoundResponse(url_code, <<BrandIdsIn(LoadBrands)>>)
             ELSE r
        ELSE IF config.kind = "raise"
             THEN NotFoundResponse(url_code, <<BrandIdsIn(LoadBrands)>>)
        ELSE IF ~({"customerName", "colors"} \subseteq DOMAIN config.val)
             THEN Raise("KeyError")
        ELSE Return([success |-> TRUE, customerName |-> config.val.customerName,
                     colors |-> config.val.colors])

\* get_fonts_css, given the outcome r of its resolve_to_brand_id
GetFontsCssResult(url_code, r) ==
    LET css_content == GenerateFontsCssResult(r.val)
    IN  IF r.kind = "raise"
        THEN IF r.val = "BrandNotFoundError" THEN NotFoundResponse(url_code, <<>>)
             ELSE r
        ELSE IF css_content.kind = "raise"
             THEN IF css_content.val = "BrandNotFoundError"
                  THEN NotFoundResponse(url_code, <<>>)
                  ELSE css_content
        ELSE Return([content |-> css_content.val, media_type |-> "text/css",
                     filename |-> <<"fonts-", r.val, ".css">>])

\* the callers of resolve_to_brand_id: itself, called alone, and the endpoints
FacadeOps == {"resolve_to_brand_id", "get_theme", "get_theme_colors", "get_fonts_css"}

\* what the caller op does once resolve_to_brand_id(url_code) ended in r, in
\* the same step: its result, whether it called _load_brands, and _css_cache
\* afterwards
AfterResolve(op, url_code, r) ==
    CASE op = "get_theme" ->
            [res |-> GetThemeResult(url_code, r),
             loaded |-> r.kind = "return" \/ r.val = "BrandNotFoundError",
             css_cache |-> css_cache]
      [] op = "get_theme_colors" ->
            [res |-> GetThemeColorsResult(url_code, r),
             loaded |-> r.kind = "return" \/ r.val = "BrandNotFoundError",
             css_cache |-> css_cache]
      [] op = "get_fonts_css" ->
            [res |-> GetFontsCssResult(url_code, r),
             loaded |-> r.kind = "return" /\ ~CssCacheHit(r.val),
             css_cache |-> IF r.kind = "return" THEN CssCacheAfter(r.val)
                           ELSE css_cache]
      [] OTHER -> [res |-> r, loaded |-> FALSE, css_cache |-> css_cache]

-----------------------------------------------------------------------------
(* Identity facade *)

\* ResolveBranch asking the configuration store first
ResolveBranchBrandFirst(code_or_brand, exists, brands) ==
    IF BrandExistsIn(brands, code_or_brand) THEN "brand"
    ELSE IF exists THEN "code"
    ELSE "not_found"

\* ResolveBranch taking every input that is no code for a brand id
ResolveBranchNoStoreCheck(code_or_brand, exists, brands) ==
    IF exists THEN "code" ELSE "brand"

\* ResolveBranch without the direct-identifier branch
ResolveBranchNoFallThrough(code_or_brand, exists, brands) ==
    IF exists THEN "code" ELSE "not_found"

\* resolve_to_brand_id once code_exists answered: the branch it takes
ResolveBranch(code_or_brand, exists, brands) ==
    IF exists THEN "code"
    ELSE IF BrandExistsIn(brands, code_or_brand) THEN "brand"
    ELSE "not_found"

\* resolve_to_brand_id ends with outcome r in the request call of slot s, and
\* its caller runs to its end in the same step; loaded says that
\* resolve_to_brand_id called _load_brands on the way
Finish(s, call, r, loaded) ==
    LET after == AfterResolve(call.op, call.arg, r)
    IN  /\ calls' = [calls EXCEPT ![s] =
                [call EXCEPT !.pc = "done", !.id = r, !.res = after.res]]
        /\ brands_cache' = IF loaded \/ after.loaded THEN BrandsCacheAfterLoad
                           ELSE brands_cache
        /\ css_cache' = after.css_cache

\* op calls resolve_to_brand_id(x): code_exists looks the input up as a code
Resolve(s, op, x) ==
    /\ IF CacheHit(x)
       THEN \* code_exists is true without a request, and so is the lookup after it
            LET out == Return(codes_cache[x])
                branch == ResolveBranch(x, CodeExistsResult(out).val, LoadBrands)
                call == [Call(op, x) EXCEPT !.hit = <<codes_cache[x]>>, !.lookup = out]
            IN  /\ Finish(s, call, IF branch = "code" THEN out ELSE Return(Lower(x)),
                          FALSE)
                /\ resolved' = ResolvedAfter(x, out)
                /\ failed' = FailedAfter(x, out)
       ELSE /\ calls' = [calls EXCEPT ![s] = [Call(op, x) EXCEPT !.pc = "awaiting"]]
            /\ UNCHANGED <<brands_cache, css_cache, resolved, failed>>
    /\ UNCHANGED <<ENABLE_CACHE, brands_json, codes_cache>>

\* resolve_to_brand_id called on its own
ResolveToBrandId(s, x) == Resolve(s, "resolve_to_brand_id", x)

\* the three endpoints that take a code or a brand id
GetTheme(s, url_code) == Resolve(s, "get_theme", url_code)

GetThemeColors(s, url_code) == Resolve(s, "get_theme_colors", url_code)

GetFontsCss(s, url_code) == Resolve(s, "get_fonts_css", url_code)

\* the response to code_exists's request arrives; the facade goes on to its
\* own get_brand_id_by_code, to brand_exists, or fails
ResolveExistsResponse(s, resp) ==
    /\ calls[s].op \in FacadeOps
    /\ calls[s].pc = "awaiting"
    /\ LET x == calls[s].arg
           out == LookupOutcome(resp)
           exists == CodeExistsResult(out)
           cache == CodesCacheAfter(x, resp)
           seen == [calls[s] EXCEPT !.resps = Append(@, resp), !.lookup = out]
           branch == ResolveBranch(x, exists.val, LoadBrands)
       IN  /\ codes_cache' = cache
           /\ resolved' = ResolvedAfter(x, out)
           /\ failed' = FailedAfter(x, out)
           /\ IF exists.kind # "return" THEN Finish(s, seen, exists, FALSE)
              ELSE IF branch = "code"
              THEN IF CacheHitIn(cache, x)
                   THEN Finish(s, [seen EXCEPT !.lookup = Return(cache[x])],
                               Return(cache[x]), FALSE)
                   ELSE /\ calls' = [calls EXCEPT ![s] = [seen EXCEPT !.pc = "awaiting2"]]
                        /\ UNCHANGED <<brands_cache, css_cache>>
              ELSE IF branch = "brand" THEN Finish(s, seen, Return(Lower(x)), TRUE)
              ELSE Finish(s, seen, Raise("BrandNotFoundError"), TRUE)
    /\ UNCHANGED <<ENABLE_CACHE, brands_json>>

\* the response to the facade's own get_brand_id_by_code arrives
ResolveLookupResponse(s, resp) ==
    /\ calls[s].op \in FacadeOps
    /\ calls[s].pc = "awaiting2"
    /\ LET x == calls[s].arg
           out == LookupOutcome(resp)
       IN  /\ codes_cache' = CodesCacheAfter(x, resp)
           /\ Finish(s, [calls[s] EXCEPT !.resps = Append(@, resp), !.lookup = out],
                     out, FALSE)
           /\ resolved' = ResolvedAfter(x, out)
           /\ failed' = FailedAfter(x, out)
    /\ UNCHANGED <<ENABLE_CACHE, brands_json>>

-----------------------------------------------------------------------------
Init ==
    /\ ENABLE_CACHE \in BOOLEAN
    /\ brands_json = InitialBrands
    /\ brands_cache = <<>>
    /\ codes_cache = <<>>
    /\ css_cache = <<>>
    /\ calls = [s \in Slots |-> Idle]
    /\ resolved = <<>>
    /\ failed = {}

Next ==
    \/ \E code \in Inputs : Quiet /\ GetBrandIdByCode(1, code)
    \/ \E resp \in Responses : GetBrandIdByCodeResponse(1, resp)
    \/ \E code \in Inputs : Quiet /\ CodeExists(1, code)
    \/ \E resp \in Responses : CodeExistsResponse(1, resp)
    \/ Quiet /\ ClearCodesCache
    \/ \E x \in Inputs : Quiet /\ ResolveToBrandId(1, x)
    \/ \E resp \in Responses : ResolveExistsResponse(1, resp)
    \/ \E resp \in Responses : ResolveLookupResponse(1, resp)
    \/ \E b \in Inputs, c \in {<<>>, <<"acme">>, <<"nope">>} :
            Quiet /\ CreateBrand(1, b, "New", c)
    \/ \E b \in Inputs : Quiet /\ DeleteBrand(1, b)

Spec == Init /\ [][Next]_vars

-----------------------------------------------------------------------------
(* The configuration store and the stylesheet generator, requests served    *)
(* one at a time                                                            *)

\* strings a caller passes as brand id
BrandIds == {"acme", "Acme", "beta"}

\* file extensions of font variants: those _get_font_format knows, one it
\* does not know, and none
Extensions == <<"woff2", "woff", "ttf", "otf", "eot", "svg", "">>

\* a config without fallback whose primary family has one variant per
\* extension, of weights 100, 200, ...
FormatsConfig ==
    Put(AcmeConfig, "fonts",
        [primary |-> Family("Inter",
            [i \in DOMAIN Extensions |->
                Variant(FontFile("Inter", <<"W", i * 100>>, "", Extensions[i]),
                        i * 100, "normal")])])

\* configs update_brand is called with: the initial one with its variant
\* replaced by a bold one, the initial one with a null secondary family, and
\* FormatsConfig
SampleConfigs ==
    {Put(AcmeConfig, "fonts",
         Put(AcmeConfig.fonts, "primary",
             Family("Inter", <<Variant(FontFile("Inter", <<"Bold">>, "", "woff2"),
                                       700, "normal")>>))),
     Put(AcmeConfig, "fonts", Put(AcmeConfig.fonts, "secondary", Null)),
     FormatsConfig}

\* uploads: <<brand_id, extension, font_type, weight, style>>, of a font "Inter"
SampleUploads ==
    {<<"acme", ".ttf", "primary", 700, "normal">>,
     <<"acme", ".woff2", "secondary", 400, "italic">>,
     <<"acme", ".exe", "primary", 700, "normal">>,
     <<"acme", ".woff2", "tertiary", 700, "normal">>,
     <<"Acme", ".ttf", "primary", 700, "normal">>}

\* the admin writes of both specifications
SampleWrites ==
    \/ \E b \in {"acme", "Acme"}, config \in SampleConfigs :
            Quiet /\ UpdateBrand(1, b, config)
    \/ \E b \in {"acme", "beta"} : Quiet /\ CreateBrand(1, b, "New", <<>>)
    \/ \E b \in {"Acme", "beta"} : Quiet /\ DeleteBrand(1, b)
    \/ \E u \in SampleUploads :
            Quiet /\ UploadFont(1, u[1], u[2], u[3], "Inter", u[4], u[5])
    \/ \E converts \in BOOLEAN : UploadFontSave(1, converts)
    \/ \E b \in {"acme", "Acme"}, weight \in {400, 700} :
            Quiet /\ DeleteFontVariant(1, b, "primary", weight, "normal")

\* BrandService reads and admin writes
NextStore ==
    \/ \E b \in BrandIds : Quiet /\ GetBrandConfig(1, b)
    \/ \E b \in BrandIds : Quiet /\ BrandExists(1, b)
    \/ Quiet /\ GetBrandIds(1)
    \/ \E b \in BrandIds, k \in DOMAIN brands_json : Quiet /\ BuildUrls(1, b, brands_json[k])
    \/ SampleWrites

SpecStore == Init /\ [][NextStore]_vars

\* stylesheet requests and admin writes
NextFonts ==
    \/ \E b \in BrandIds : Quiet /\ GenerateFontsCss(1, b)
    \/ SampleWrites

SpecFonts == Init /\ [][NextFonts]_vars

\* the theme endpoints, and brands created and deleted between requests
NextApi ==
    \/ \E x \in Inputs : Quiet /\ GetTheme(1, x)
    \/ \E x \in Inputs : Quiet /\ GetThemeColors(1, x)
    \/ \E x \in Inputs : Quiet /\ GetFontsCss(1, x)
    \/ \E resp \in Responses : ResolveExistsResponse(1, resp)
    \/ \E resp \in Responses : ResolveLookupResponse(1, resp)
    \/ \E c \in {<<>>, <<"acme">>} : Quiet /\ CreateBrand(1, "beta", "New", c)
    \/ \E b \in {"acme", "beta"} : Quiet /\ DeleteBrand(1, b)

SpecApi == Init /\ [][NextApi]_vars

\* a stored config that lacks a required field: the fonts record, or its
\* primary family
Malformed(config) ==
    \/ "fonts" \notin DOMAIN config
    \/ "primary" \notin DOMAIN config.fonts

\* the initial config without its fonts, and without its primary family
MalformedConfigs ==
    {Drop(AcmeConfig, "fonts"),
     Put(AcmeConfig, "fonts", Drop(AcmeConfig.fonts, "primary"))}

\* stylesheet and theme requests for a tenant whose config update_brand
\* replaces with a malformed or with the initial one
NextMalformed ==
    \/ \E config \in MalformedConfigs \cup {AcmeConfig} :
            Quiet /\ UpdateBrand(1, "acme", config)
    \/ \E b \in {"acme", "Acme"} : Quiet /\ GenerateFontsCss(1, b)
    \/ \E x \in Inputs : Quiet /\ GetTheme(1, x)
    \/ \E x \in Inputs : Quiet /\ GetFontsCss(1, x)
    \/ \E resp \in Responses : ResolveExistsResponse(1, resp)
    \/ \E resp \in Responses : ResolveLookupResponse(1, resp)

SpecMalformed == Init /\ [][NextMalformed]_vars

\* uploads of font variants: <<extension, font_type, font_name, weight,
\* style>>; among them a weight above 900, a style "oblique", a font_type
\* and an extension that upload_font rejects
VariantUploads ==
    {<<".woff2", "primary", "Inter", 400, "normal">>,
     <<".ttf", "primary", "Inter", 700, "normal">>,
     <<".woff2", "primary", "Inter", 400, "italic">>,
     <<".woff2", "primary", "Open Sans", 700, "normal">>,
     <<".otf", "secondary", "Inter", 400, "normal">>,
     <<".woff2", "primary", "Inter", 1000, "normal">>,
     <<".woff2", "primary", "Inter", 400, "oblique">>,
     <<".woff2", "tertiary", "Inter", 400, "normal">>,
     <<".exe", "primary", "Inter", 400, "normal">>}

\* upload_font and delete_font_variant requests for one tenant, served one
\* at a time
NextVariants ==
    \/ \E u \in VariantUploads :
            Quiet /\ UploadFont(1, "acme", u[1], u[2], u[3], u[4], u[5])
    \/ \E converts \in BOOLEAN : UploadFontSave(1, converts)
    \/ \E font_type \in {"primary", "secondary"}, weight \in {400, 700},
          style \in {"normal", "italic"} :
            Quiet /\ DeleteFontVariant(1, "acme", font_type, weight, style)

SpecVariants == Init /\ [][NextVariants]_vars

\* two requests at a time. The first slot serves the creation of a second
\* tenant, logo uploads and uploads of a bold variant for the first tenant;
\* the second slot serves favicon uploads for the first tenant and uploads
\* of a regular variant for either
NextUploads ==
    \/ Free(1) /\ CreateBrand(1, "beta", "New", <<>>)
    \/ Free(1) /\ UploadLogo(1, "acme", ".png")
    \/ Free(1) /\ UploadFont(1, "acme", ".woff2", "primary", "Inter", 700, "italic")
    \/ Free(2) /\ UploadFavicon(2, "acme", ".png")
    \/ \E b \in {"acme", "beta"} :
            Free(2) /\ UploadFont(2, b, ".woff2", "primary", "Inter", 400, "italic")
    \/ \E s \in Slots : UploadImageSave(s)
    \/ \E s \in Slots : UploadFontSave(s, TRUE)

SpecUploads == Init /\ [][NextUploads]_vars

\* two get_brand_id_by_code calls at a time
NextLookups ==
    \/ \E s \in Slots, code \in Inputs : Free(s) /\ GetBrandIdByCode(s, code)
    \/ \E s \in Slots, resp \in Responses : GetBrandIdByCodeResponse(s, resp)

SpecLookups == Init /\ [][NextLookups]_vars

\* config reads, code lookups and stylesheet requests of one tenant, with
\* its config replaced in between
NextCaches ==
    \/ \E b \in {"acme", "Acme"} : Quiet /\ GetBrandConfig(1, b)
    \/ \E b \in {"acme", "beta"}, config \in SampleConfigs \cup {AcmeConfig} :
            Quiet /\ UpdateBrand(1, b, config)
    \/ Quiet /\ GetBrandIdByCode(1, "acme")
    \/ \E resp \in Responses : GetBrandIdByCodeResponse(1, resp)
    \/ Quiet /\ GenerateFontsCss(1, "acme")

SpecCaches == Init /\ [][NextCaches]_vars

\* admin writes, and the file BrandService opens under each setting of
\* BRANDS_CONFIG_PATH: unset, the admin layer's path, another path
NextPaths ==
    \/ \E env \in {<<>>, <<BRANDS_JSON_PATH>>, <<<<"data", "brands.json">>>>} :
            Quiet /\ LoadConfigured(1, env)
    \/ SampleWrites

SpecPaths == Init /\ [][NextPaths]_vars

\* every admin handler modelled, with requests that it rejects and requests
\* that it serves, and a read that fills the BrandService cache
NextErrors ==
    \/ Quiet /\ GetBrandConfig(1, "acme")
    \/ \E b \in {"acme", "beta"}, c \in {<<>>, <<"nope">>} :
            Quiet /\ CreateBrand(1, b, "New", c)
    \/ \E b \in {"beta", "nope"} : Quiet /\ DeleteBrand(1, b)
    \/ \E b \in {"acme", "nope"} : Quiet /\ UpdateBrand(1, b, FormatsConfig)
    \/ \E b \in {"acme", "nope"}, ext \in {".png", ".gif"} : Quiet /\ UploadLogo(1, b, ext)
    \/ \E ext \in {".png", ".gif"} : Quiet /\ UploadFavicon(1, "nope", ext)
    \/ UploadImageSave(1)
    \/ \E b \in {"acme", "nope"}, category \in {"car", "boat"}, ext \in {".png", ".gif"} :
            Quiet /\ UploadPlaceholder(1, b, category, "front", ext)
    \/ UploadPlaceholderSave(1)
    \/ \E b \in {"acme", "nope"}, ext \in {".ttf", ".exe"},
          font_type \in {"primary", "tertiary"} :
            Quiet /\ UploadFont(1, b, ext, font_type, "Inter", 700, "normal")
    \/ \E converts \in BOOLEAN : UploadFontSave(1, converts)
    \/ \E b \in {"acme", "nope"}, font_type \in {"primary", "secondary"} :
            Quiet /\ DeleteFontVariant(1, b, font_type, 400, "normal")

SpecErrors == Init /\ [][NextErrors]_vars

\* stylesheets of two tenants generated and cleared, and a code looked up
NextClear ==
    \/ Quiet /\ CreateBrand(1, "beta", "New", <<>>)
    \/ \E b \in BrandIds : Quiet /\ GenerateFontsCss(1, b)
    \/ \E t \in {<<>>, <<"">>, <<"acme">>, <<"Acme">>, <<"beta">>, <<"nope">>} :
            Quiet /\ ClearCssCache(1, t)
    \/ Quiet /\ GetBrandIdByCode(1, "acme")
    \/ \E resp \in {HttpResponse(200, TRUE, <<"Acme">>), Timeout} :
            GetBrandIdByCodeResponse(1, resp)

SpecClear == Init /\ [][NextClear]_vars

\* a tenant created, with and without copy_from, and the three endpoints
\* called with its id
NextCreated ==
    \/ \E c \in {<<>>, <<"acme">>} : Quiet /\ CreateBrand(1, "beta", "New", c)
    \/ Quiet /\ DeleteBrand(1, "beta")
    \/ Quiet /\ GetTheme(1, "beta")
    \/ Quiet /\ GetThemeColors(1, "beta")
    \/ Quiet /\ GetFontsCss(1, "beta")
    \/ \E resp \in Responses : ResolveExistsResponse(1, resp)
    \/ \E resp \in Responses : ResolveLookupResponse(1, resp)

SpecCreated == Init /\ [][NextCreated]_vars

-----------------------------------------------------------------------------
(* Properties of the code resolver and the identity facade, checked under Spec *)

\* a request of operation op that ran to its end
Done(s, op) == calls[s].op = op /\ calls[s].pc = "done"

\* a success response whose body is JSON without a usable customerName
LacksName(resp) ==
    /\ IsSuccess(resp)
    /\ resp.json
    /\ (resp.customerName = <<>> \/ resp.customerName[1] = "")

\* C3: get_brand_id_by_code maps a 404 answer to CodeNotFoundError and every
\* other non-success answer or transport failure to CodeServiceError
C3_StatusMapping ==
    \A s \in Slots :
        (Done(s, "get_brand_id_by_code") /\ calls[s].resps # <<>>) =>
            LET r == calls[s].resps[1]
            IN  /\ (r.kind = "http" /\ r.status = 404)
                        => calls[s].res = Raise("CodeNotFoundError")
                /\ (r.kind = "timeout" \/ (~IsSuccess(r) /\ r.status # 404))
                        => calls[s].res = Raise("CodeServiceError")

\* C4: when the lookup times out, code_exists returns false and a direct
\* get_brand_id_by_code raises CodeServiceError, not CodeNotFoundError
C4_TimeoutIsolation ==
    \A s \in Slots :
        (calls[s].pc = "done" /\ calls[s].resps = <<Timeout>>) =>
            /\ calls[s].op = "code_exists" => calls[s].res = Return(FALSE)
            /\ calls[s].op = "get_brand_id_by_code"
                    => calls[s].res = Raise("CodeServiceError")

C4_Witness ==
    \E s \in Slots :
        /\ Done(s, "get_brand_id_by_code")
        /\ calls[s].resps = <<Timeout>>
        /\ calls[s].res = Raise("CodeServiceError")

\* C5: code_exists never raises; it returns true exactly when its
\* get_brand_id_by_code returned a name, and false when that call raised
C5_ExistsNeverRaises ==
    \A s \in Slots :
        Done(s, "code_exists") =>
            /\ calls[s].res.kind = "return"
            /\ calls[s].res.val \in BOOLEAN
            /\ calls[s].res.val <=> (calls[s].lookup.kind = "return")

C5_Witness ==
    \E s \in Slots :
        /\ Done(s, "code_exists")
        /\ calls[s].lookup = Raise("CodeServiceError")
        /\ calls[s].res = Return(FALSE)

\* C6: a success response without a customerName ends get_brand_id_by_code
\* in CodeServiceError and leaves the code without a cache entry
C6_MissingNameIsError ==
    \A s \in Slots :
        (Done(s, "get_brand_id_by_code") /\ calls[s].resps # <<>>
            /\ LacksName(calls[s].resps[1])) =>
            /\ calls[s].res = Raise("CodeServiceError")
            /\ calls[s].arg \notin DOMAIN codes_cache

C6_Witness ==
    \E s \in Slots :
        /\ Done(s, "get_brand_id_by_code")
        /\ ENABLE_CACHE
        /\ calls[s].resps = <<HttpResponse(200, TRUE, <<>>)>>
        /\ calls[s].res = Raise("CodeServiceError")
        /\ calls[s].arg \notin DOMAIN codes_cache

C8_FailureNotCached ==
    \A s \in Slots :
        (calls[s].op = "get_brand_id_by_code" /\ calls[s].prevFailed) =>
            \/ calls[s].pc = "awaiting"
            \/ /\ calls[s].pc = "done"
               /\ calls[s].resps # <<>>
               /\ HasName(calls[s].resps[1])
                    => calls[s].res = Return(calls[s].resps[1].customerName[1])

C8_Witness ==
    \E s \in Slots :
        /\ Done(s, "get_brand_id_by_code")
        /\ calls[s].prevFailed
        /\ calls[s].resps # <<>>
        /\ HasName(calls[s].resps[1])
        /\ calls[s].res = Return(calls[s].resps[1].customerName[1])

\* the code resolver maps the input of request c to name n: the cache held n
\* for it, or every answer the request received carried n
ResolverMaps(c, n) ==
    \/ c.resps = <<>> /\ c.hit = <<n>>
    \/ /\ c.resps # <<>>
       /\ \A i \in DOMAIN c.resps :
            HasName(c.resps[i]) /\ c.resps[i].customerName[1] = n

\* C9: resolve_to_brand_id returns the name the code resolver maps its input
\* to, also when the input is a brand id of the configuration store
C9_CodePrecedence ==
    \A s \in Slots :
        Done(s, "resolve_to_brand_id") =>
            \A n \in Names :
                ResolverMaps(calls[s], n) => calls[s].res = Return(n)

C9_Witness ==
    \E s \in Slots :
        /\ Done(s, "resolve_to_brand_id")
        /\ BrandExistsIn(brands_json, calls[s].arg)
        /\ calls[s].resps # <<>>
        /\ ResolverMaps(calls[s], "beta")
        /\ calls[s].res = Return("beta")

\* C10: for a key t of the configuration store that the code resolver does
\* not resolve, resolve_to_brand_id(t) returns lowercase(t)
C10_DirectIdentifier ==
    \A s \in Slots :
        (Done(s, "resolve_to_brand_id")
            /\ calls[s].arg \in BrandIdsIn(brands_json)
            /\ Len(calls[s].resps) = 1
            /\ calls[s].lookup.kind = "raise") =>
            calls[s].res = Return(Lower(calls[s].arg))

\* the lookup service failed: no answer in time, or a 5xx answer
Outage(resp) == resp.kind = "timeout" \/ (resp.kind = "http" /\ resp.status >= 500)

\* C11: when the code resolver does not resolve x and the configuration store
\* has no brand for x, resolve_to_brand_id(x) raises BrandNotFoundError
C11_NotFound ==
    \A s \in Slots :
        (Done(s, "resolve_to_brand_id")
            /\ Len(calls[s].resps) = 1
            /\ calls[s].lookup.kind = "raise"
            /\ ~BrandExistsIn(brands_json, calls[s].arg)) =>
            calls[s].res = Raise("BrandNotFoundError")

C11_Witness ==
    \E s \in Slots :
        /\ Done(s, "resolve_to_brand_id")
        /\ calls[s].resps = <<HttpResponse(404, TRUE, <<>>)>>
        /\ calls[s].arg \notin DOMAIN brands_json
        /\ Lower(calls[s].arg) \notin DOMAIN brands_json
        /\ calls[s].res = Raise("BrandNotFoundError")

\* C13: when the lookup service fails and x is not in the code cache,
\* resolve_to_brand_id(x) raises no CodeServiceError: it returns lowercase(x)
\* if that is a key of the configuration store and raises BrandNotFoundError
\* if not
C13_OutageFallThrough ==
    \A s \in Slots :
        (Done(s, "resolve_to_brand_id")
            /\ calls[s].resps # <<>>
            /\ Outage(calls[s].resps[1])) =>
            /\ Len(calls[s].resps) = 1
            /\ calls[s].res = IF Lower(calls[s].arg) \in DOMAIN brands_json
                              THEN Return(Lower(calls[s].arg))
                              ELSE Raise("BrandNotFoundError")

\* during an outage, a code that was resolved earlier (with caching disabled)
\* is taken for the brand id it spells
C13_Witness ==
    \E s \in Slots :
        /\ Done(s, "resolve_to_brand_id")
        /\ calls[s].resps = <<Timeout>>
        /\ calls[s].prior = <<"beta">>
        /\ calls[s].res = Return(Lower(calls[s].arg))

\* C14: an identifier resolve_to_brand_id returns is the lower-case key of a
\* brand of the configuration store
C14_CanonicalResult ==
    \A s \in Slots :
        (Done(s, "resolve_to_brand_id") /\ calls[s].res.kind = "return") =>
            /\ calls[s].res.val = Lower(calls[s].res.val)
            /\ calls[s].res.val \in DOMAIN brands_json

-----------------------------------------------------------------------------
(* Properties of the theme endpoints, checked under SpecApi *)

\* C12: a 404 response of get_theme, get_theme_colors or get_fonts_css names
\* the input of the request and lists the brand ids of the configuration store
C12_NotFoundNamesAndLists ==
    \A s \in Slots :
        (calls[s].pc = "done"
            /\ calls[s].op \in {"get_theme", "get_theme_colors", "get_fonts_css"}
            /\ calls[s].res.kind = "http_exception"
            /\ calls[s].res.val.status_code = 404) =>
            /\ calls[s].res.val.names = calls[s].arg
            /\ calls[s].res.val.available = <<BrandIdsIn(brands_json)>>

-----------------------------------------------------------------------------
(* Properties of the stylesheet cache, checked under SpecFonts *)

\* family, file, weight and style of the @font-face rules of a stylesheet, in order
CssVariants(css) ==
    LET faces == SelectSeq(css, LAMBDA b : b.block = "@font-face")
    IN  [i \in DOMAIN faces |->
            [family |-> faces[i].family, file |-> faces[i].src[Len(faces[i].src)],
             weight |-> faces[i].weight, style |-> faces[i].style]]

\* the same of the variants a family key of a stored config holds
FamilyVariants(fonts_config, font_type) ==
    IF font_type \in DOMAIN fonts_config /\ fonts_config[font_type] # Null
    THEN LET family == fonts_config[font_type]
         IN  [i \in DOMAIN family.variants |->
                [family |-> family.name, file |-> family.variants[i].file,
                 weight |-> family.variants[i].weight,
                 style |-> family.variants[i].style]]
    ELSE <<>>

StoredVariants(config) ==
    FamilyVariants(config.fonts, "primary") \o FamilyVariants(config.fonts, "secondary")

\* C1: the stylesheet generate_fonts_css returns for a stored brand shows the
\* font variants stored for it at the time of the call, also when an earlier
\* call cached a stylesheet and an admin write changed a variant since
C1_StylesheetCoherent ==
    \A s \in Slots :
        (Done(s, "generate_fonts_css") /\ calls[s].res.kind = "return"
            /\ Lower(calls[s].arg) \in DOMAIN brands_json) =>
            CssVariants(calls[s].res.val)
                = StoredVariants(brands_json[Lower(calls[s].arg)])

-----------------------------------------------------------------------------
(* Properties of the configuration store, checked under SpecStore *)

Generated(s) == Done(s, "generate_fonts_css") /\ calls[s].res.kind = "return"

\* such a call that found no cache entry and made the text of the stored config
Fresh(s) == Generated(s) /\ calls[s].hit = <<>>

\* C15: a generate_fonts_css(t) that follows another one for the same t, with
\* no admin request in between, gives the same answer
C15_Idempotent ==
    \A s \in Slots :
        (Done(s, "generate_fonts_css") /\ calls[s].arg \in DOMAIN calls[s].before) =>
            calls[s].res = calls[s].before[calls[s].arg]

\* the second call recomputes the text (caching disabled) and returns it again
C15_Witness ==
    \E s \in Slots :
        /\ ~ENABLE_CACHE
        /\ Generated(s)
        /\ calls[s].arg \in DOMAIN calls[s].before
        /\ calls[s].res = calls[s].before[calls[s].arg]

\* C16: the text generate_fonts_css returns for a brand does not depend on
\* the letter case of the identifier it is called with, nor on which call
\* filled the cache: calls for identifiers equal up to case, with no admin
\* request in between, return the same text
C16_CaseIndependent ==
    \A s \in Slots :
        Generated(s) =>
            \A a \in DOMAIN calls[s].before :
                (Lower(a) = Lower(calls[s].arg) /\ calls[s].before[a].kind = "return")
                    => calls[s].before[a].val = calls[s].res.val

\* C17: generate_fonts_css(t) raises BrandNotFoundError when the
\* configuration store has no brand for t at the time of the call
C17_DeletedIsNotFound ==
    \A s \in Slots :
        (Done(s, "generate_fonts_css")
            /\ Lower(calls[s].arg) \notin DOMAIN brands_json) =>
            /\ calls[s].res.kind = "raise"
            /\ calls[s].res.val = "BrandNotFoundError"

\* C18: the text made of a stored config has one @font-face block per
\* variant, the primary family's before the secondary's, each family's in
\* the stored order, each with the family's name and the variant's URL,
\* weight and style, and the :root block after all of them
C18_Structure ==
    \A s \in Slots :
        Fresh(s) =>
            LET css == calls[s].res.val
                config == brands_json[Lower(calls[s].arg)]
            IN  /\ CssVariants(css) = StoredVariants(config)
                /\ \A i \in DOMAIN css :
                        css[i].block = "@font-face" =>
                            /\ i < Len(css)
                            /\ css[i].src = <<STATIC_BASE_URL, "brands", calls[s].arg,
                                              "fonts", css[i].src[Len(css[i].src)]>>
                /\ css[Len(css)].block = ":root"
                /\ \A i \in 1..(Len(css) - 1) : css[i].block # ":root"

\* a text made of a config with two primary variants and a secondary family
C18_Witness ==
    \E s \in Slots :
        /\ Fresh(s)
        /\ LET fonts == brands_json[Lower(calls[s].arg)].fonts
           IN  /\ Len(fonts.primary.variants) >= 2
               /\ "secondary" \in DOMAIN fonts
               /\ fonts.secondary # Null
               /\ Len(fonts.secondary.variants) >= 1
        /\ Len(CssVariants(calls[s].res.val)) >= 3

\* the format hint the extension of a font file calls for
FormatHint(ext) ==
    CASE ext = "woff2" -> "woff2"
      [] ext = "woff" -> "woff"
      [] ext = "ttf" -> "truetype"
      [] ext = "otf" -> "opentype"
      [] ext = "eot" -> "embedded-opentype"
      [] OTHER -> "truetype"

C20_OptionalFontFields ==
    \A s \in Slots :
        (Done(s, "generate_fonts_css") /\ calls[s].hit = <<>>
            /\ Lower(calls[s].arg) \in DOMAIN brands_json) =>
            LET fonts == brands_json[Lower(calls[s].arg)].fonts
                css == calls[s].res.val
            IN  /\ ("secondary" \notin DOMAIN fonts \/ fonts.secondary = Null) =>
                        /\ calls[s].res.kind = "return"
                        /\ css[Len(css)].secondary[1] = fonts.primary.name
                /\ ("fallback" \notin DOMAIN fonts /\ calls[s].res.kind = "return") =>
                        /\ css[Len(css)].fallback = "Arial, sans-serif"
                        /\ css[Len(css)].primary[2] = "Arial, sans-serif"

-----------------------------------------------------------------------------
(* Malformed configs, checked under SpecMalformed *)

\* C21: while the stored config of the only tenant lacks its fonts record or
\* its primary family, a get_theme request, and with the stylesheet cache
\* off a generate_fonts_css or get_fonts_css request, ends in an error
C21_MalformedIsError ==
    (/\ Malformed(brands_json["acme"])
     /\ calls[1].pc = "done"
     /\ \/ calls[1].op = "get_theme"
        \/ calls[1].op \in {"generate_fonts_css", "get_fonts_css"} /\ ~ENABLE_CACHE)
    => calls[1].res.kind # "return"

-----------------------------------------------------------------------------
(* URL building, checked under SpecStore *)

\* the URL "{base}/brands/{tenant}/{segments}"
UrlOf(tenant, segments) == <<STATIC_BASE_URL, "brands", tenant>> \o segments

\* C22: the builders called with tenant b and the logos, placeholders and
\* primary family of a config give, under the same keys and in the same
\* order, {base}/brands/b/images/{filename},
\* {base}/brands/b/images/placeholders/{path} and {base}/brands/b/fonts/{file}
\* with name, weights and styles as given; and the call changes no store or
\* cache state
C22_UrlBuilding ==
    /\ [](Done(1, "build_urls") =>
            LET b == calls[1].arg
                config == calls[1].params.config
                out == calls[1].res.val
                family == config.fonts.primary
            IN  /\ DOMAIN out.logos = DOMAIN config.logos
                /\ \A k \in DOMAIN config.logos :
                        out.logos[k] = UrlOf(b, <<"images", config.logos[k]>>)
                /\ DOMAIN out.placeholders = DOMAIN config.placeholders
                /\ \A c \in DOMAIN config.placeholders :
                        /\ DOMAIN out.placeholders[c] = DOMAIN config.placeholders[c]
                        /\ \A k \in DOMAIN config.placeholders[c] :
                                out.placeholders[c][k] =
                                    UrlOf(b, <<"images", "placeholders",
                                               config.placeholders[c][k]>>)
                /\ out.fonts.kind = "return"
                /\ out.fonts.val.name = family.name
                /\ Len(out.fonts.val.variants) = Len(family.variants)
                /\ \A i \in DOMAIN family.variants :
                        out.fonts.val.variants[i] =
                            [src |-> UrlOf(b, <<"fonts", family.variants[i].file>>),
                             weight |-> family.variants[i].weight,
                             style |-> family.variants[i].style])
    /\ [][calls'[1].op = "build_urls" =>
            UNCHANGED <<brands_json, brands_cache, codes_cache, css_cache>>]_vars

\* the builders ran for "Acme" on a config with filled placeholders and
\* several variants
C22_Witness ==
    /\ Done(1, "build_urls")
    /\ calls[1].arg = "Acme"
    /\ Len(calls[1].params.config.fonts.primary.variants) > 1
    /\ DOMAIN calls[1].params.config.placeholders.car # {}
    /\ calls[1].res.val.logos.header = <<STATIC_BASE_URL, "brands", "Acme", "images", "logo.svg">>

-----------------------------------------------------------------------------
(* Identifier case on the read and the write path, checked under SpecStore *)

\* C23: two get_brand_config calls, or two brand_exists calls, served one
\* after the other in the same store state for ids that are equal up to
\* letter case have the same outcome: the same value returned, or the same
\* error raised
C23_CaseInsensitiveReads ==
    \A op \in {"get_brand_config", "brand_exists"} :
        (/\ Done(1, op)
         /\ calls[1].before # <<>>
         /\ calls[1].before[1].op = op
         /\ Lower(calls[1].before[1].arg) = Lower(calls[1].arg))
        => /\ calls[1].res.kind = calls[1].before[1].res.kind
           /\ calls[1].res.val = calls[1].before[1].res.val

\* get_brand_config("Acme") returned a config right after
\* get_brand_config("acme")
C23_Witness ==
    /\ Done(1, "get_brand_config")
    /\ calls[1].arg = "Acme"
    /\ calls[1].res.kind = "return"
    /\ calls[1].before # <<>>
    /\ calls[1].before[1].op = "get_brand_config"
    /\ calls[1].before[1].arg = "acme"

\* C24: an update_brand for an id whose lower-case form is a key of the
\* stored document, so that get_brand_config of that id succeeds, succeeds,
\* and the config stored under the key get_brand_config reads is the one
\* written
C24_CaseInsensitiveReplace ==
    (/\ Done(1, "update_brand")
     /\ Lower(calls[1].arg) \in DOMAIN calls[1].brands[1])
    => /\ calls[1].res = Return("success")
       /\ brands_json[Lower(calls[1].arg)] = calls[1].params.config

-----------------------------------------------------------------------------
(* Font variants, checked under SpecVariants *)

\* the variants of family font_type in the fonts record of a config
VariantsOf(fonts, font_type) ==
    IF font_type \in DOMAIN fonts /\ fonts[font_type] # Null
    THEN fonts[font_type].variants
    ELSE <<>>

\* slot s holds a successful request op: the variants of the family it
\* names before it (in the document it loaded) and after it (in the store)
Wrote(s, op) == Done(s, op) /\ calls[s].res = Return("success")

VariantsBefore(s) ==
    VariantsOf(calls[s].brands[1][calls[s].arg].fonts, calls[s].params.font_type)

VariantsAfter(s) ==
    VariantsOf(brands_json[calls[s].arg].fonts, calls[s].params.font_type)

\* variant v has the weight and style that the request of slot s names
Named(s, v) == v.weight = calls[s].params.weight /\ v.style = calls[s].params.style

\* C25: a successful upload_font for a (weight, style) the family has
\* leaves the number of variants as it is and makes the file of that variant
\* the uploaded one; for a (weight, style) the family does not have it adds
\* exactly one variant, with the uploaded file
C25_VariantUpsert ==
    Wrote(1, "upload_font") =>
        LET before == VariantsBefore(1)
            after == VariantsAfter(1)
            f == calls[1].params
            had == \E i \in DOMAIN before : Named(1, before[i])
        IN  /\ Len(after) = IF had THEN Len(before) ELSE Len(before) + 1
            /\ \E i \in DOMAIN after :
                    /\ Named(1, after[i])
                    /\ after[i].file.ext = "woff2"
                    /\ after[i].file.weight_name = WeightName(f.weight)
            /\ \A i \in DOMAIN before :
                    ~Named(1, before[i]) => \E j \in DOMAIN after : after[j] = before[i]

\* an upload replaced the file of an existing variant by another one
C25_Witness ==
    /\ Wrote(1, "upload_font")
    /\ \E i \in DOMAIN VariantsBefore(1), j \in DOMAIN VariantsAfter(1) :
            /\ Named(1, VariantsBefore(1)[i])
            /\ Named(1, VariantsAfter(1)[j])
            /\ VariantsBefore(1)[i].file # VariantsAfter(1)[j].file
    /\ Len(VariantsAfter(1)) > 1

\* C26: every family of every stored config has at most one variant per
\* (weight, style), and a successful delete_font_variant removes the variant
\* with the given (weight, style) and no other
C26_VariantUnique ==
    /\ \A b \in DOMAIN brands_json : \A t \in {"primary", "secondary"} :
            LET variants == VariantsOf(brands_json[b].fonts, t)
            IN  \A i, j \in DOMAIN variants :
                    (variants[i].weight = variants[j].weight
                        /\ variants[i].style = variants[j].style) => i = j
    /\ Wrote(1, "delete_font_variant") =>
            LET before == VariantsBefore(1)
                after == VariantsAfter(1)
            IN  /\ Len(after) = Len(before) - 1
                /\ \A j \in DOMAIN after : ~Named(1, after[j])
                /\ \A i \in DOMAIN before :
                        ~Named(1, before[i]) => \E j \in DOMAIN after : after[j] = before[i]

\* a variant was deleted from a family that keeps another one of the same
\* weight
C26_Witness ==
    /\ Wrote(1, "delete_font_variant")
    /\ \E j \in DOMAIN VariantsAfter(1) :
            VariantsAfter(1)[j].weight = calls[1].params.weight

\* the order of Python strings among the styles
StyleBefore == {<<"italic", "normal">>, <<"italic", "oblique">>, <<"normal", "oblique">>}

\* variants ascending by (weight, style)
Ascending(variants) ==
    \A i, j \in DOMAIN variants :
        i < j => \/ variants[i].weight < variants[j].weight
                 \/ /\ variants[i].weight = variants[j].weight
                    /\ \/ variants[i].style = variants[j].style
                       \/ <<variants[i].style, variants[j].style>> \in StyleBefore

\* C27: after a successful upload_font the variants of the family written
\* are ascending by (weight, style), and after a successful
\* delete_font_variant the remaining variants are in the order they had
C27_VariantOrder ==
    /\ Wrote(1, "upload_font") => Ascending(VariantsAfter(1))
    /\ Wrote(1, "delete_font_variant") =>
            LET before == VariantsBefore(1)
                after == VariantsAfter(1)
            IN  \A i, j \in DOMAIN after :
                    i < j => \E k, l \in DOMAIN before :
                                k < l /\ before[k] = after[i] /\ before[l] = after[j]

\* an upload whose variant was appended behind one that sorts after it: the
\* italic variant of a weight the family has a normal variant of
C27_Witness ==
    /\ Wrote(1, "upload_font")
    /\ calls[1].params.style = "italic"
    /\ \E i \in DOMAIN VariantsBefore(1) :
            /\ VariantsBefore(1)[i].weight = calls[1].params.weight
            /\ VariantsBefore(1)[i].style = "normal"
    /\ ~(\E i \in DOMAIN VariantsBefore(1) : Named(1, VariantsBefore(1)[i]))
    /\ Len(VariantsAfter(1)) > 2

\* C28: an upload_font with a weight outside 100..900 or a style other than
\* normal and italic is rejected and leaves the store as it was
C28_VariantDomain ==
    (/\ Done(1, "upload_font")
     /\ \/ calls[1].params.weight \notin 100..900
        \/ calls[1].params.style \notin {"normal", "italic"})
    => /\ calls[1].res.kind = "raise"
       /\ brands_json = calls[1].brands[1]

-----------------------------------------------------------------------------
(* Overlapping uploads, checked under SpecUploads *)

\* what the upload of slot s sets: the tenant, and the logo slot or the
\* family, weight and style of the variant
Target(s) ==
    IF calls[s].op = "upload_font"
    THEN <<calls[s].arg, calls[s].params.font_type, calls[s].params.weight,
           calls[s].params.style>>
    ELSE <<calls[s].arg, calls[s].params.slot, 0, "">>

\* the stored document holds what the upload of slot s wrote
Stored(s) ==
    IF calls[s].op = "upload_font"
    THEN \E i \in DOMAIN VariantsAfter(s) : Named(s, VariantsAfter(s)[i])
    ELSE brands_json[calls[s].arg].logos[calls[s].params.slot]
            = ImageFilename(calls[s].params.slot, calls[s].params.ext)

\* C29: when two uploads that set different things were both suspended in
\* their file reads at the same time and both completed with success, the
\* stored document holds what each of them wrote
C29_NoLostWrite ==
    (/\ \A s \in Slots :
            /\ calls[s].op \in {"upload_logo", "upload_favicon", "upload_font"}
            /\ calls[s].pc = "done"
            /\ calls[s].res = Return("success")
            /\ calls[s].overlaps
     /\ Target(1) # Target(2))
    => \A s \in Slots : Stored(s)

-----------------------------------------------------------------------------
(* Overlapping lookups, checked under SpecLookups *)

\* C30: every entry of the code cache holds a non-empty name, the one the
\* latest successful lookup of its code returned, which is a name a success
\* response carried; and a lookup that ends in an error leaves the cache as
\* it was
C30_CachePopulationRace ==
    /\ [](\A c \in DOMAIN codes_cache :
            /\ codes_cache[c] # ""
            /\ codes_cache[c] \in Names
            /\ c \in DOMAIN resolved
            /\ codes_cache[c] = resolved[c])
    /\ [][\A s \in Slots :
            (calls[s].pc = "awaiting" /\ calls'[s].pc = "done"
                /\ calls'[s].res.kind = "raise")
            => codes_cache' = codes_cache]_vars

\* two lookups of one code both missed, both queried the service and got
\* different names; the cache holds one of them
C30_Witness ==
    /\ ENABLE_CACHE
    /\ \A s \in Slots :
            /\ Done(s, "get_brand_id_by_code")
            /\ calls[s].arg = "acme"
            /\ Len(calls[s].resps) = 1
            /\ calls[s].res.kind = "return"
    /\ calls[1].res.val # calls[2].res.val
    /\ codes_cache["acme"] \in {calls[1].res.val, calls[2].res.val}

-----------------------------------------------------------------------------
(* Cache lifecycle, checked under SpecCaches *)

\* C31: with ENABLE_CACHE on, a get_brand_config served first after start
\* or right after a successful update_brand opens the file and returns from
\* the stored document, and one served right after another get_brand_config
\* returns from the document that one left in the cache, without opening
\* the file. With ENABLE_CACHE off every get_brand_config opens the file,
\* every get_brand_id_by_code queries the service and every
\* generate_fonts_css makes the text anew
C31_LazyPopulation ==
    /\ [][(calls'[1] # calls[1] /\ calls'[1].op = "get_brand_config") =>
            /\ (ENABLE_CACHE /\ (calls[1].op = "none" \/ Wrote(1, "update_brand")))
                    => /\ calls'[1].hit = <<>>
                       /\ brands_cache' = <<brands_json>>
                       /\ calls'[1].res = BrandConfigIn(brands_json, calls'[1].arg)
            /\ (ENABLE_CACHE /\ Done(1, "get_brand_config"))
                    => /\ calls'[1].hit = brands_cache
                       /\ brands_cache # <<>>
                       /\ brands_cache' = brands_cache
                       /\ calls'[1].res = BrandConfigIn(brands_cache[1], calls'[1].arg)
            /\ ~ENABLE_CACHE
                    => /\ calls'[1].hit = <<>>
                       /\ calls'[1].res = BrandConfigIn(brands_json, calls'[1].arg)
          ]_vars
    /\ []((~ENABLE_CACHE /\ Done(1, "get_brand_id_by_code")) => Len(calls[1].resps) = 1)
    /\ []((~ENABLE_CACHE /\ Done(1, "generate_fonts_css")) =>
            calls[1].hit = <<>> /\ css_cache = <<>>)

\* with the cache on, a get_brand_config was answered from the cache that
\* the read before it filled after an update
C31_Witness ==
    /\ ENABLE_CACHE
    /\ Done(1, "get_brand_config")
    /\ calls[1].hit # <<>>
    /\ calls[1].before # <<>>
    /\ calls[1].res.kind = "return"
    /\ calls[1].res.val # AcmeConfig

-----------------------------------------------------------------------------
(* The lookup behind a positive code_exists, checked under Spec *)

\* C32: a resolve_to_brand_id call whose code_exists found a name, in the
\* cache or in the response to its request, returns that name
C32_ExistsThenResolve ==
    Done(1, "resolve_to_brand_id") =>
        /\ calls[1].hit # <<>> => calls[1].res = Return(calls[1].hit[1])
        /\ (calls[1].resps # <<>> /\ HasName(calls[1].resps[1])) =>
                calls[1].res = Return(calls[1].resps[1].customerName[1])

-----------------------------------------------------------------------------
(* The file behind both layers, checked under SpecPaths *)

\* C33: whatever BRANDS_CONFIG_PATH is set to, the file BrandService opens
\* is the one the admin layer writes, and the document it loads has the
\* tenants and the configs that the admin layer wrote last
C33_SingleSource ==
    Done(1, "_load_brands") =>
        /\ BrandsConfigPath(calls[1].params.BRANDS_CONFIG_PATH) = BRANDS_JSON_PATH
        /\ DOMAIN calls[1].res.val = DOMAIN brands_json
        /\ \A b \in DOMAIN brands_json : calls[1].res.val[b] = brands_json[b]

-----------------------------------------------------------------------------
(* Error responses of the admin layer, checked under SpecErrors *)

\* C34: the step in which an admin handler answers 400 or 404 changes
\* neither the stored document nor the BrandService cache, and the stored
\* document is then the one the handler loaded when it was called
C34_ErrorsChangeNothing ==
    /\ [][(/\ calls'[1] # calls[1]
           /\ calls'[1].op \in WriteOps
           /\ calls'[1].pc = "done"
           /\ calls'[1].res.kind = "raise"
           /\ calls'[1].res.val \in {"HTTP 400", "HTTP 404"})
          => UNCHANGED <<brands_json, brands_cache>>]_vars
    /\ []((/\ calls[1].op \in WriteOps
           /\ calls[1].pc = "done"
           /\ calls[1].res.kind = "raise"
           /\ calls[1].res.val \in {"HTTP 400", "HTTP 404"})
          => brands_json = calls[1].brands[1])

\* an upload_placeholder for a category that does not exist was answered 400
\* while the BrandService cache was filled, after an earlier write
C34_Witness ==
    /\ Done(1, "upload_placeholder")
    /\ calls[1].params.category = "boat"
    /\ calls[1].res = Raise("HTTP 400")
    /\ brands_cache # <<>>
    /\ brands_json # InitialBrands

-----------------------------------------------------------------------------
(* Stylesheet invalidation, checked under SpecClear *)

\* C35: clear_cache(t) with a non-empty t leaves in the stylesheet cache the
\* entries it found, unchanged, except the one keyed by t in lower case;
\* clear_cache() leaves it empty; neither changes the stored document, the
\* BrandService cache or the code cache
C35_ClearCache ==
    /\ [](Done(1, "clear_cache") =>
            LET t == calls[1].params.brand_id
                found == calls[1].before
            IN  /\ (t # <<>> /\ t[1] # "") =>
                        /\ DOMAIN css_cache = DOMAIN found \ {Lower(t[1])}
                        /\ \A k \in DOMAIN css_cache : css_cache[k] = found[k]
                /\ t = <<>> => DOMAIN css_cache = {})
    /\ [][(calls'[1] # calls[1] /\ calls'[1].op = "clear_cache")
            => UNCHANGED <<brands_json, brands_cache, codes_cache>>]_vars

\* clear_cache("Acme") removed the entry "acme" and left another tenant's
\* entry, while the code cache held a name
C35_Witness ==
    /\ Done(1, "clear_cache")
    /\ calls[1].params.brand_id = <<"Acme">>
    /\ DOMAIN calls[1].before = {"acme", "beta"}
    /\ DOMAIN css_cache = {"beta"}
    /\ DOMAIN codes_cache # {}

-----------------------------------------------------------------------------
(* A created tenant, checked under SpecCreated *)

\* C36: while the store holds the tenant that create_brand made, get_theme,
\* get_theme_colors and get_fonts_css called with its id, and resolving to
\* it, return a success response
C36_CreatedIsServable ==
    (/\ "beta" \in DOMAIN brands_json
     /\ calls[1].op \in FacadeOps
     /\ calls[1].pc = "done"
     /\ calls[1].arg = "beta"
     /\ calls[1].id = Return("beta"))
    => calls[1].res.kind = "return"

====
